---------------------------- MODULE Spec2Model ----------------------------
(***************************************************************************)
(* Verification model of the voice-call gateways of this repository and of *)
(* the browser side of a call.                                             *)
(*                                                                         *)
(*  - the streaming gateway (ws-gateway/server.js): one WebSocket session  *)
(*    with its turn buffer, silence timer, streaming STT callbacks, the    *)
(*    batch forward (forwardAndRespond) and the streaming reply pipeline   *)
(*    (runLLMAndTTS with its concurrent sentence synthesis);               *)
(*  - the Live gateway (server/index.js with live-bridge.mjs): one         *)
(*    WebSocket session with its upstream bridges, the readiness timer and *)
(*    the echo fallback;                                                   *)
(*  - the Next.js WebSocket route and the current Live gateway;            *)
(*  - the voice activity detection hooks, the recorder with its capture    *)
(*    hook, and the conversation flow hook of the call page.               *)
(*                                                                         *)
(* Every handler of the code is one action; an async function is cut at    *)
(* its await points, each piece being one action.                          *)
(***************************************************************************)
EXTENDS Integers, Sequences, FiniteSets, TLC

(***************************************************************************)
(* Bounds of the model (not program constants).                            *)
(***************************************************************************)
\* audio messages (binary or JSON) a client sends in one session
MaxChunks == 2
\* recognition results the streaming recognizer delivers in one session
MaxStt == 1
\* eos control messages a client sends in one session
MaxEos == 1
\* sentences of one LLM reply, when the reply pipeline is checked on its own
MaxSentences == 3
\* sentences of one LLM reply, when the whole session is checked
MaxGwSentences == 1
\* start messages a client sends on one Live session
MaxStarts == 2
\* client_audio messages a client sends on one Live session
MaxAudio == 2
\* upgrade requests one server receives
MaxUpgrades == 1
\* bytes (in MiB) a client sends on one streaming session
MaxBytes == 6
\* seconds a streaming session is followed for
MaxSecs == 12
\* seconds a Live session is followed for
MaxLvSecs == 60
\* malformed messages a client sends on one session
MaxBad == 1
\* binary messages a client sends on one session of the conversation route
MaxRtAudio == 3
\* recognizer callbacks on one session of the conversation route
MaxRtStt == 2
\* milliseconds between two animation frames of the VAD in the model
TickMs == 100
\* milliseconds a VAD session is followed for
MaxVadMs == 1500
\* stopVAD calls on one mounted VAD hook
MaxVadStops == 1
\* RecorderSoT.start calls in one recording session
MaxRecStarts == 2
\* RecorderSoT.stop calls in one recording session
MaxRecStops == 2
\* timeslice data events of the media recorders in one recording session
MaxRecData == 1
\* the step of the conversation flow's clock, in milliseconds
FlowTickMs == 1000
\* how long the conversation flow is followed while no timer is set
MaxFlowMs == 2000
\* startConversation calls on one conversation flow
MaxConvStarts == 1
\* startListening calls on one conversation flow
MaxListens == 1
\* processUserMessage calls on one conversation flow
MaxUserMsgs == 2
\* processAIResponse calls on one conversation flow
MaxAiMsgs == 1
\* endConversation calls on one conversation flow
MaxHangups == 1
\* tts_chunk headers of one streamed reply
MaxTts == 3

(***************************************************************************)
(* Program constants.                                                      *)
(***************************************************************************)
MAX_INFLIGHT == 2
\* the per-message byte cap of the streaming gateway, in MiB (its default)
MAX_MSG_BYTES == 2
\* the period of the streaming gateway's ping interval, in seconds
PingEverySec == 5
\* the period of the Live gateway's heartbeat interval, in seconds
HeartbeatSec == 15
\* the conversation route's cap on audio received before start, in MiB
MAX_PRESTART_BYTES == 2

VARIABLES
  \* ---- streaming gateway session (ws-gateway/server.js) ----
  CONVERSATION_URL,  \* TRUE iff the batch conversation endpoint is configured
  GEMINI_API_KEY,    \* TRUE iff the LLM key is configured
  wsState,           \* "open" | "closing" (server called ws.close) | "closed"
  chunks,            \* the turn buffer: sequence of chunk ids
  forwarded,         \* the forward latch
  silenceTimer,      \* TRUE iff the silence timer is armed and pending
  sttPlanned,
  sttActive,
  sttLastInterim,    \* "" or kind of the last interim transcript
  sttLastFinal,      \* "" or kind of the last final transcript
  llmStarted,
  llmDone,
  fwd,               \* the forwardAndRespond invocation: [pc, body]
  replies,           \* the runLLMAndTTS invocations, in start order
  sent,              \* frames handed to an open client socket, in order
  \* ---- environment / history of the streaming session ----
  replyMax,          \* sentences the LLM puts in a reply (chosen at start)
  nChunks,           \* audio messages received so far
  nStt,              \* recognition results delivered so far
  nEos,              \* eos messages received so far
  sttWritten,        \* TRUE iff audio was written to the recognizer
  fwdCount,          \* forwardAndRespond invocations that passed the latch
  nSilence,          \* times the silence timer fired on a non-empty unforwarded buffer
  \* ---- the streaming session's connection housekeeping ----
  MAX_BYTES,         \* the per-session byte cap, in MiB
  IDLE_SEC,          \* the idle timeout, in seconds
  MAX_CONN_SECS,     \* the maximum connection age, in seconds
  bytes,             \* bytes received on the connection, in MiB
  wsCloseCode,       \* the code of the close frame the gateway sent, or 0
  wsCloseReason,     \* its reason, or ""
  idle,              \* seconds since lastActivity
  aliveSec,          \* seconds since openedAt
  idleDue,           \* TRUE iff a callback of the idle interval is due
  pingDue,           \* TRUE iff a callback of the ping interval is due
  \* ---- environment / history of the connection ----
  msgSizes,          \* the sizes of the messages this client sends, in MiB
  peerAnswers,       \* TRUE iff the peer answers pings with pongs
  unanswered,        \* pings sent since the peer stopped answering
  nBad,              \* malformed messages received so far
  \* ---- Live gateway session (server/index.js, live-bridge.mjs) ----
  LIVE_API_WS_URL,   \* TRUE iff the upstream URL is configured
  GOOGLE_API_KEY,    \* TRUE iff a static API key is configured
  lvWs,              \* client socket: "open" | "closing" | "closed"
  lvCloseCode,       \* the code the gateway closed the client socket with, or 0
  lvCloseReason,     \* the reason it gave: "done" (end_call), "upstream_closed", or ""
  bridge,            \* index of the start whose bridge the variable holds, 0 = null
  appKeepalive,      \* TRUE iff the application keepalive interval runs
  sentReady,
  acked,
  upstreamReady,
  readyTimer,        \* index of the start whose timer handle is held, 0 = null
  starts,            \* one record per start message: [stage, up, timer]
  lvSent,            \* frames handed to the open client socket, in order
  \* ---- environment / history of the Live session ----
  nAudio,            \* client_audio messages received so far
  upAudio,           \* audio frames written to an upstream socket
  \* ---- the Live gateway's heartbeat ----
  WS_IDLE_TIMEOUT_SEC, \* the idle timeout, in seconds
  isAlive,           \* ws.isAlive
  lvIdle,            \* seconds since ws.lastSeen
  lvAge,             \* seconds since the connection was accepted
  lvPinged,          \* TRUE iff a ping is out whose pong has not arrived
  lvBad,             \* malformed client messages received so far
  lvPeerAnswers,     \* TRUE iff the peer answers pings with pongs
  lvUnanswered,      \* pings sent since the peer stopped answering
  \* ---- the upgrade gates of the three gateways ----
  ALLOWED_ORIGINS,   \* TRUE iff an origin allow-list is configured
  ALLOW_NO_ORIGIN,   \* TRUE iff ALLOW_NO_ORIGIN === "true" (Live gateway)
  REQUIRE_WS_TOKEN,  \* TRUE iff a token is required
  WS_TOKEN,          \* TRUE iff the expected token is a non-empty string
  ALLOW_QUERY_TOKEN, \* TRUE iff ALLOW_QUERY_TOKEN === "true" (Live gateway)
  ugReq,             \* the last upgrade request: [gw, path, origin, ssp, header, query]
  ugStatus,          \* the answer to it: 101 (handshake) or the HTTP status, 0 = none yet
  ugConns,           \* connection handlers run so far (session objects, timers)
  ugCount,           \* upgrade requests received so far
  \* ---- the conversation route's session (app/api/ws/conversation/route.ts) ----
  rtWs,              \* its socket: "open" | "closing" | "closed"
  rtCloseCode,       \* the code the route closed the socket with, or 0
  rtCloseReason,     \* its reason, or ""
  started,
  stt,               \* "null" | "live" (the recognizer) | "ended" (after end())
  startedLLM,
  lastInterim,       \* "" or the kind of the last interim transcript
  closed,
  idleTimer,         \* TRUE iff the idle timeout is pending
  preStartBytes,     \* in MiB
  importing,         \* start handlers suspended at the await import
  rtSent,            \* frame types handed to the open socket, in order
  rtReplies,         \* runLLMAndTTS invocations started
  rtWritten,         \* audio messages written to the recognizer
  \* ---- environment / history of the route's session ----
  nRtStart,          \* start messages received so far
  nRtEnd,            \* end messages received so far
  nRtAudio,          \* binary messages received so far
  nRtStt,            \* recognizer callbacks run so far
  \* ---- voice activity detection (use-voice-activity-detection.ts) ----
  hook,              \* which hook is mounted: "current", "legacy" or "none"
  silenceThreshold,  \* option, in ms
  minSilenceDuration, \* option, in ms
  minSpeechDuration, \* option, in ms
  maxSpeechDuration, \* option, in ms
  zeroInputWatchdogMs, \* option zeroInputWatchdogSec, in ms
  isVADRunning,      \* isVADRunningRef
  isSpeaking,        \* isSpeakingRef
  speechStartTime,   \* speechStartTimeRef
  silenceStartTime,  \* silenceStartTimeRef
  maxDurationTimer,  \* TRUE iff maxDurationTimerRef holds a timer
  maxTimerDue,       \* the time the pending max-duration timer fires at
  zeroInputAccum,    \* zeroInputAccumRef
  lastFrameTs,       \* lastFrameTsRef
  \* ---- the earlier hook (ai-phone-system) ----
  lgAnalyser,        \* TRUE iff analyserRef holds the analyser
  lgIsSpeaking,      \* isSpeakingRef
  lgSpeechStartTime, \* speechStartTimeRef
  lgSilenceTimerDue, \* the time the pending silence timer fires at
  lgMaxTimerDue,     \* the time the pending max-duration timer fires at
  \* ---- environment / history of the VAD ----
  now,               \* performance.now() / Date.now()
  frameDue,          \* a requested animation frame has not run yet
  energy,            \* the energy level of the last frame analyzed
  quietSince,        \* the first frame of the present run below threshold
  nVadStop,          \* stopVAD calls that stopped the VAD
  nSpeechStart,      \* onSpeechStart calls
  nSpeechEnd,        \* onSpeechEnd calls
  nMaxReached,       \* onMaxDurationReached calls
  nZeroInput,        \* onZeroInputDetected calls
  segMaxReached,     \* onMaxDurationReached calls since the last onSpeechStart
  \* ---- recorder (lib/recorder.ts) and capture hook (use-webrtc-audio.ts) ----
  starting,          \* RecorderSoT.starting
  stopping,          \* RecorderSoT.stopping
  isRecording,       \* the hook's isRecording state as last rendered
  renderPending,     \* setIsRecording was called and React has not rendered
  nextIsRecording,   \* the state the next render shows
  stream,            \* TRUE iff streamRef holds the microphone stream
  isStartingRef,
  isStoppingRef,
  stopPromiseRef,    \* TRUE iff stopPromiseRef holds the promise of a stop
  mediaRecorderRef,  \* index in recorders of the recorder the ref holds, or 0
  recorders,         \* the MediaRecorders created, each "recording",
                     \* "stopRequested", "delivering" or "inactive"
  audioChunks,       \* number of chunks in audioChunksRef
  startPc,           \* "resuming" while a start waits for audioContext.resume()
  stopPc,            \* "waiting" while a stop waits for the stop promise
  \* ---- environment / history of the recorder ----
  nRecStart,         \* RecorderSoT.start calls so far
  nRecStop,          \* RecorderSoT.stop calls so far
  nStopResolved,     \* RecorderSoT.stop calls that have resolved
  nStopFailed,       \* RecorderSoT.stop calls that have rejected
  handed,            \* blobs onAudioData has taken
  stopAfterStart,    \* the last recorder call made was a stop, after a start
  nRecData,          \* timeslice data events so far
  \* ---- conversation flow (useConversationFlow) ----
  silenceTimeoutDuration, \* option, ms
  maxSilenceBeforeEnd,    \* option, ms
  state,             \* the ConversationState
  isAwaitingEndConfirmation, \* context.isAwaitingEndConfirmation
  connectionCheckCount,      \* context.connectionCheckCount
  hasUserResponded,  \* context.hasUserResponded
  silenceTimeout,    \* the timer silenceTimeoutRef holds: when it is due and
                     \* which of the two callbacks it runs, or NoTimer
  connectionCheckTimeout, \* when the timer of connectionCheckTimeoutRef is due, or Null
  graceTimers,       \* the timers set on entering ending, oldest first, each
                     \* with the time it is due and the reason it will report
  greetingTimer,     \* when the timer of startConversation is due, or Null
  \* ---- environment / history of the conversation flow ----
  clock,             \* the flow's time, ms
  callEnds,          \* the reasons onCallEnd was called with, in order
  nConvStart,        \* startConversation calls so far
  nListen,           \* startListening calls so far
  nUserMsg,          \* processUserMessage calls so far
  nAiMsg,            \* processAIResponse calls so far
  nHangup,           \* endConversation calls so far
  \* ---- playback of a streamed reply (StreamingClient, AudioQueue) ----
  pendingTTSMeta,    \* seq of StreamingClient.pendingTTSMeta, or Null
  queue,             \* AudioQueue.queue: the seq of each item
  playing,           \* AudioQueue.playing
  firstStarted,      \* AudioQueue.firstStarted
  loopPc,            \* playLoop: "idle", "decoding", "playing" or "failed"
  loopItem,          \* seq of the item playLoop holds, or Null
  \* ---- environment / history of the playback ----
  unsent,            \* seqs whose header has not arrived
  binaryDue,         \* the binary frame of the last header has not arrived
  played             \* the seqs of the buffers started, in order

gwVars == << CONVERSATION_URL, GEMINI_API_KEY, wsState, chunks, forwarded,
             silenceTimer, sttPlanned, sttActive, sttLastInterim, sttLastFinal,
             llmStarted, llmDone, fwd, replies, sent, replyMax, nChunks, nStt,
             nEos, sttWritten, fwdCount, nSilence >>

cnVars == << MAX_BYTES, IDLE_SEC, MAX_CONN_SECS, bytes, wsCloseCode, wsCloseReason,
             idle, aliveSec, idleDue, pingDue, msgSizes, peerAnswers, unanswered,
             nBad >>

lvVars == << LIVE_API_WS_URL, GOOGLE_API_KEY, lvWs, lvCloseCode, lvCloseReason,
             bridge, appKeepalive, sentReady, acked, upstreamReady, readyTimer, starts,
             lvSent, nAudio, upAudio >>

hbVars == << WS_IDLE_TIMEOUT_SEC, isAlive, lvIdle, lvAge, lvPinged, lvBad,
             lvPeerAnswers, lvUnanswered >>

ugVars == << ALLOWED_ORIGINS, ALLOW_NO_ORIGIN, REQUIRE_WS_TOKEN, WS_TOKEN,
             ALLOW_QUERY_TOKEN, ugReq, ugStatus, ugConns, ugCount >>

rtVars == << rtWs, rtCloseCode, rtCloseReason, started, stt, startedLLM,
             lastInterim, closed, idleTimer, preStartBytes, importing, rtSent,
             rtReplies, rtWritten, nRtStart, nRtEnd, nRtAudio, nRtStt >>

vdVars == << hook, silenceThreshold, minSilenceDuration, minSpeechDuration,
             maxSpeechDuration, zeroInputWatchdogMs, isVADRunning, isSpeaking,
             speechStartTime, silenceStartTime, maxDurationTimer, maxTimerDue,
             zeroInputAccum, lastFrameTs, lgAnalyser, lgIsSpeaking,
             lgSpeechStartTime, lgSilenceTimerDue, lgMaxTimerDue, now, frameDue,
             energy, quietSince, nVadStop, nSpeechStart, nSpeechEnd, nMaxReached,
             nZeroInput, segMaxReached >>

rcVars == << starting, stopping, isRecording, renderPending, nextIsRecording,
             stream, isStartingRef, isStoppingRef, stopPromiseRef, mediaRecorderRef,
             recorders, audioChunks, startPc, stopPc, nRecStart, nRecStop,
             nStopResolved, nStopFailed, handed, stopAfterStart, nRecData >>

cfVars == << silenceTimeoutDuration, maxSilenceBeforeEnd, state,
             isAwaitingEndConfirmation, connectionCheckCount, hasUserResponded,
             silenceTimeout, connectionCheckTimeout, graceTimers, greetingTimer,
             clock, callEnds, nConvStart, nListen, nUserMsg, nAiMsg,
             nHangup >>

aqVars == << pendingTTSMeta, queue, playing, firstStarted, loopPc, loopItem,
             unsent, binaryDue, played >>

\* the browser side: the hooks and classes of the client
clVars == << vdVars, rcVars, cfVars, aqVars >>

\* the server side: the gateways and the route
srvVars == << gwVars, cnVars, lvVars, hbVars, ugVars, rtVars >>

vars == << srvVars, clVars >>

\* what the actions of one part leave alone: the other parts' variables
offGwVars == << lvVars, hbVars, ugVars, rtVars, clVars >>
nonGwVars == << cnVars, offGwVars >>
offLvVars == << gwVars, cnVars, ugVars, rtVars, clVars >>
nonLvVars == << hbVars, offLvVars >>
nonUgVars == << gwVars, cnVars, lvVars, hbVars, rtVars, clVars >>
nonRtVars == << gwVars, cnVars, lvVars, hbVars, ugVars, clVars >>
nonVdVars == << srvVars, rcVars, cfVars, aqVars >>
nonRcVars == << srvVars, vdVars, cfVars, aqVars >>
nonCfVars == << srvVars, vdVars, rcVars, aqVars >>
nonAqVars == << srvVars, vdVars, rcVars, cfVars >>

(***************************************************************************)
(* Frames.  t: frame type, seq: sequence number / sentence index (-1 when  *)
(* the frame has none), err: the frame carries an error tag, by: which     *)
(* invocation sent it (0: the session or forwardAndRespond, i > 0: the     *)
(* i-th runLLMAndTTS).                                                     *)
(***************************************************************************)
Frame(t, seq, err, by) == [t |-> t, seq |-> seq, err |-> err, by |-> by]

\* ws.send on a socket: the frame goes out only while the socket is OPEN
WsSend(log, frames) == IF wsState = "open" THEN log \o frames ELSE log

\* the session's socket: its state and the close frame it sent
Socket ==
  [wsState |-> wsState, wsCloseCode |-> wsCloseCode, wsCloseReason |-> wsCloseReason]

\* try { ws.close(code, reason) } catch {}: an open socket sends the close
\* frame and is closing from then on, any other socket is left as it is; the
\* socket after the call
CloseWith(code, reason) ==
  IF wsState = "open"
    THEN [wsState |-> "closing", wsCloseCode |-> code, wsCloseReason |-> reason]
    ELSE Socket

(***************************************************************************)
(* Transcripts, by what the code tests on them.                            *)
(*   "blank"  : whitespace only, shorter than 30 characters                *)
(*   "weak"   : non-blank, no sentence-final mark at the end, < 30 chars   *)
(*   "strong" : non-blank, ends in a sentence-final mark or >= 30 chars    *)
(***************************************************************************)
Transcripts == {"blank", "weak", "strong"}

\* alt.trim() is non-empty
NonBlank(alt) == alt \in {"weak", "strong"}

\* /[。．\.？！!?]\s*$/.test(alt) || alt.length >= 30
EarlyTrigger(alt) == alt = "strong"

\* (sttLastFinal && sttLastFinal.trim()) ? sttLastFinal
\*   : (sttLastInterim && sttLastInterim.trim()) ? sttLastInterim : ''
BestText == IF NonBlank(sttLastFinal) THEN sttLastFinal
            ELSE IF NonBlank(sttLastInterim) THEN sttLastInterim ELSE ""


(***************************************************************************)
(* runLLMAndTTS: one invocation is a record                                *)
(*   pc       : "fetch" (awaiting the streaming LLM call), "stream"        *)
(*              (reading the reply stream), "flushwait" (flushSentence     *)
(*              waiting for inflight < MAX_INFLIGHT), "drain" (waiting for *)
(*              inflight = 0), "gen" / "tts" (single-shot fallback),       *)
(*              "done"                                                     *)
(*   buf      : sentenceBuf holds unflushed text                           *)
(*   nsent    : ai_sentence frames produced so far                         *)
(*   seqLocal, inflight : as in the code                                   *)
(*   pending  : sequence numbers of the synthesis calls in flight          *)
(*   after    : where flushSentence returns to ("stream" or "drain")       *)
(*   trig     : the handler that called it ("stt", "silence", "eos",       *)
(*              "close"), kept for the record                              *)
(***************************************************************************)
NewReply(pc, trig) ==
  [pc |-> pc, buf |-> FALSE, nsent |-> 0, seqLocal |-> 0, inflight |-> 0,
   pending |-> {}, after |-> "stream", trig |-> trig]

\* the synchronous head of runLLMAndTTS(text), called by handler trig with the
\* reply list rs and the frame log: without a key it reports an error result
\* and returns
RunLLMAndTTS(rs, log, trig) ==
  IF ~GEMINI_API_KEY
    THEN [replies |-> Append(rs, NewReply("done", trig)),
          sent |-> WsSend(log, << Frame("result_error", -1, TRUE, Len(rs) + 1) >>)]
    ELSE [replies |-> Append(rs, NewReply("fetch", trig)), sent |-> log]

\* the detached synthesis task of flushSentence is started: lines 409-411
SpawnTts(r) == [r EXCEPT !.inflight = @ + 1,
                         !.seqLocal = @ + 1,
                         !.pending = @ \cup {r.seqLocal},
                         !.pc = r.after]

\* flushSentence(sentence) up to its first suspension, for invocation r
FlushSentence(r, after) ==
  LET r1 == [r EXCEPT !.buf = FALSE, !.nsent = @ + 1, !.after = after]
  IN  IF r1.inflight >= MAX_INFLIGHT
        THEN [r1 EXCEPT !.pc = "flushwait"]
        ELSE SpawnTts(r1)

\* a synthesis task that sent the binary payload ahead of its header
TtsBinaryFirstFrames(i, s) == << Frame("binary", s, FALSE, i), Frame("tts_chunk", s, FALSE, i) >>

\* the frames of a successful synthesis: the header, then its binary payload
TtsOkFrames(i, s) == << Frame("tts_chunk", s, FALSE, i), Frame("binary", s, FALSE, i) >>

\* the frame of a failed synthesis: an error-tagged header and no binary
TtsFailFrames(i, s) == << Frame("tts_chunk", s, TRUE, i) >>

ReplyVarsUnchanged ==
  UNCHANGED << CONVERSATION_URL, GEMINI_API_KEY, wsState, chunks, forwarded,
               silenceTimer, sttPlanned, sttActive, sttLastInterim,
               sttLastFinal, llmStarted, fwd, replyMax, nChunks, nStt, nEos,
               sttWritten, fwdCount, nSilence, nonGwVars >>

\* fetch(streamUrl) resolved with llmRes.ok && llmRes.body
ReplyFetchOk(i) ==
  /\ replies[i].pc = "fetch"
  /\ replies' = [replies EXCEPT ![i].pc = "stream"]
  /\ UNCHANGED << sent, llmDone >>
  /\ ReplyVarsUnchanged

\* fetch(streamUrl) resolved not ok: the single-shot generate call is issued
ReplyFetchNotOk(i) ==
  /\ replies[i].pc = "fetch"
  /\ replies' = [replies EXCEPT ![i].pc = "gen"]
  /\ UNCHANGED << sent, llmDone >>
  /\ ReplyVarsUnchanged

\* an awaited call of runLLMAndTTS rejects (fetch, reader.read, res.json):
\* the catch block reports ai_done with the error
ReplyThrow(i) ==
  /\ replies[i].pc \in {"fetch", "stream", "gen", "tts"}
  /\ replies' = [replies EXCEPT ![i].pc = "done"]
  /\ sent' = WsSend(sent, << Frame("ai_done", -1, TRUE, i) >>)
  /\ UNCHANGED llmDone
  /\ ReplyVarsUnchanged

\* one text delta read from the stream; completes tells whether sentenceBuf
\* now ends a sentence (or reached 80 characters)
ReplyDelta(i, completes) ==
  /\ replies[i].pc = "stream"
  /\ IF completes
       THEN /\ replies[i].buf \/ replies[i].nsent < replyMax
            /\ replies' = [replies EXCEPT ![i] = FlushSentence(replies[i], "stream")]
            /\ sent' = WsSend(sent, << Frame("ai_text_delta", -1, FALSE, i),
                                       Frame("ai_sentence", replies[i].nsent, FALSE, i) >>)
       ELSE /\ ~replies[i].buf
            /\ replies[i].nsent < replyMax
            /\ replies' = [replies EXCEPT ![i].buf = TRUE]
            /\ sent' = WsSend(sent, << Frame("ai_text_delta", -1, FALSE, i) >>)
  /\ UNCHANGED llmDone
  /\ ReplyVarsUnchanged

\* the stream ended (rdDone or [DONE]): flush what is left, then drain
ReplyStreamEnd(i) ==
  /\ replies[i].pc = "stream"
  /\ IF replies[i].buf
       THEN /\ replies' = [replies EXCEPT ![i] = FlushSentence(replies[i], "drain")]
            /\ sent' = WsSend(sent, << Frame("ai_sentence", replies[i].nsent, FALSE, i) >>)
       ELSE /\ replies' = [replies EXCEPT ![i].pc = "drain"]
            /\ UNCHANGED sent
  /\ UNCHANGED llmDone
  /\ ReplyVarsUnchanged

\* flushSentence leaves its wait loop: while (inflight >= MAX_INFLIGHT)
ReplyFlushResume(i) ==
  /\ replies[i].pc = "flushwait"
  /\ replies[i].inflight < MAX_INFLIGHT
  /\ replies' = [replies EXCEPT ![i] = SpawnTts(replies[i])]
  /\ UNCHANGED << sent, llmDone >>
  /\ ReplyVarsUnchanged

\* while (inflight > 0) is left: llmDone = true and ai_done is sent
ReplyDrained(i) ==
  /\ replies[i].pc = "drain"
  /\ replies[i].inflight = 0
  /\ replies' = [replies EXCEPT ![i].pc = "done"]
  /\ llmDone' = TRUE
  /\ sent' = WsSend(sent, << Frame("ai_done", -1, FALSE, i) >>)
  /\ ReplyVarsUnchanged

\* the synthesis call for sequence number s returned audio
TtsOk(i, s) ==
  /\ s \in replies[i].pending
  /\ replies' = [replies EXCEPT ![i].pending = @ \ {s}, ![i].inflight = @ - 1]
  /\ sent' = WsSend(sent, TtsOkFrames(i, s))
  /\ UNCHANGED llmDone
  /\ ReplyVarsUnchanged

\* the synthesis call for sequence number s failed
TtsFail(i, s) ==
  /\ s \in replies[i].pending
  /\ replies' = [replies EXCEPT ![i].pending = @ \ {s}, ![i].inflight = @ - 1]
  /\ sent' = WsSend(sent, TtsFailFrames(i, s))
  /\ UNCHANGED llmDone
  /\ ReplyVarsUnchanged

\* fallback: generateContent returned ok; the whole text is one sentence
GenOk(i) ==
  /\ replies[i].pc = "gen"
  /\ replies' = [replies EXCEPT ![i].pc = "tts", ![i].nsent = @ + 1]
  /\ sent' = WsSend(sent, << Frame("ai_sentence", 0, FALSE, i) >>)
  /\ UNCHANGED llmDone
  /\ ReplyVarsUnchanged

\* fallback: generateContent returned not ok
GenNotOk(i) ==
  /\ replies[i].pc = "gen"
  /\ replies' = [replies EXCEPT ![i].pc = "done"]
  /\ sent' = WsSend(sent, << Frame("ai_done", -1, TRUE, i) >>)
  /\ UNCHANGED llmDone
  /\ ReplyVarsUnchanged

\* fallback: the synthesis call returned; ok tells whether it returned audio
FallbackTts(i, ok) ==
  /\ replies[i].pc = "tts"
  /\ replies' = [replies EXCEPT ![i].pc = "done"]
  /\ sent' = WsSend(sent, (IF ok THEN TtsOkFrames(i, 0) ELSE << >>)
                          \o << Frame("ai_done", -1, FALSE, i) >>)
  /\ UNCHANGED llmDone
  /\ ReplyVarsUnchanged

(***************************************************************************)
(* forwardAndRespond: the batch forward of the turn buffer.                *)
(*   fwd.pc : "idle", "grace" (in delay(EOU_GRACE_MS)), "fetch" (awaiting  *)
(*            the conversation endpoint), "done"                           *)
(*   fwd.body : the chunks that were concatenated into the request         *)
(***************************************************************************)
\* a forward that is left to the silence timer: the call changes nothing
ForwardLeftToTimer ==
  [forwarded |-> forwarded, silenceTimer |-> silenceTimer, fwd |-> fwd,
   fwdCount |-> fwdCount]

\* lines 289-292: the latch, the timer reset and the entry into the grace
\* delay, as the values [forwarded, silenceTimer, fwd, fwdCount] after the call
ForwardAndRespond ==
  IF forwarded
    THEN [forwarded |-> forwarded, silenceTimer |-> silenceTimer,
          fwd |-> fwd, fwdCount |-> fwdCount]
    ELSE [forwarded |-> TRUE, silenceTimer |-> FALSE,
          fwd |-> [pc |-> "grace", body |-> << >>], fwdCount |-> fwdCount + 1]

FwdVarsUnchanged ==
  UNCHANGED << CONVERSATION_URL, GEMINI_API_KEY, forwarded, silenceTimer,
               sttPlanned, sttActive, sttLastInterim, sttLastFinal, llmStarted,
               llmDone, replies, replyMax, nChunks, nStt, nEos, sttWritten,
               fwdCount, nSilence, MAX_BYTES, IDLE_SEC, MAX_CONN_SECS, bytes,
               idle, aliveSec, idleDue, pingDue, msgSizes, peerAnswers,
               unanswered, nBad, offGwVars >>

\* the grace delay is over: the buffer is taken; without CONVERSATION_URL an
\* error result is sent and the socket is closed with 1011, else the request
\* is issued
FwdGraceEnd ==
  /\ fwd.pc = "grace"
  /\ chunks' = << >>
  /\ IF ~CONVERSATION_URL
       THEN /\ fwd' = [pc |-> "done", body |-> chunks]
            /\ sent' = WsSend(sent, << Frame("result_error", -1, TRUE, 0) >>)
            /\ wsState' = CloseWith(1011, "config").wsState
            /\ wsCloseCode' = CloseWith(1011, "config").wsCloseCode
            /\ wsCloseReason' = CloseWith(1011, "config").wsCloseReason
       ELSE /\ fwd' = [pc |-> "fetch", body |-> chunks]
            /\ UNCHANGED << sent, wsState, wsCloseCode, wsCloseReason >>
  /\ FwdVarsUnchanged

\* the frames of a mappable conversation response: the result envelopes, the
\* compatibility messages, then the in-band close notice
FwdOkFrames(txt, audio) ==
     (IF txt THEN << Frame("result_text", -1, FALSE, 0) >> ELSE << >>)
  \o (IF audio # "none" THEN << Frame("result_audio", -1, FALSE, 0) >> ELSE << >>)
  \o (IF txt THEN << Frame("ai_sentence", -1, FALSE, 0) >> ELSE << >>)
  \o (IF audio = "b64" THEN << Frame("tts_chunk", -1, FALSE, 0) >>
      ELSE IF audio = "url" THEN << Frame("tts_url", -1, FALSE, 0) >> ELSE << >>)
  \o (IF ~txt /\ audio = "none" THEN << Frame("result_error", -1, TRUE, 0) >> ELSE << >>)
  \o << Frame("close", -1, FALSE, 0) >>

\* the conversation endpoint answered ok with JSON: txt tells whether a text
\* field is present, audio which audio field ("b64", "url" or "none")
FwdReplyOk(txt, audio) ==
  /\ fwd.pc = "fetch"
  /\ fwd' = [fwd EXCEPT !.pc = "done"]
  /\ sent' = WsSend(sent, FwdOkFrames(txt, audio))
  /\ UNCHANGED << chunks, wsState, wsCloseCode, wsCloseReason >>
  /\ FwdVarsUnchanged

\* the conversation endpoint answered not ok (or ok:false, or no JSON), or
\* the request threw: an error result is sent
FwdReplyError ==
  /\ fwd.pc = "fetch"
  /\ fwd' = [fwd EXCEPT !.pc = "done"]
  /\ sent' = WsSend(sent, << Frame("result_error", -1, TRUE, 0) >>)
  /\ UNCHANGED << chunks, wsState, wsCloseCode, wsCloseReason >>
  /\ FwdVarsUnchanged

(***************************************************************************)
(* The session's handlers.                                                 *)
(***************************************************************************)
\* inbound messages are delivered until the close event
Receiving == wsState \in {"open", "closing"}

\* a size check that knows the per-message cap only
RejectedPerMessage(size) == size > MAX_MSG_BYTES

\* lines 153-160: the message is over the per-message cap, or takes the
\* session's byte count over the per-session cap
Rejected(size) == size > MAX_MSG_BYTES \/ bytes + size > MAX_BYTES

\* what the timers and the environment of the connection keep in a message
\* handler
CnRestUnchanged ==
  UNCHANGED << MAX_BYTES, IDLE_SEC, MAX_CONN_SECS, aliveSec, idleDue, pingDue,
               msgSizes, peerAnswers, unanswered >>

\* lines 151-160 for a message that passes both caps: the activity stamp and
\* the byte count
Accepted(size) ==
  /\ size \in msgSizes
  /\ ~Rejected(size)
  /\ bytes' = bytes + size
  /\ idle' = 0
  /\ CnRestUnchanged

\* lines 151-160 for a message of any kind that fails a cap: it is counted,
\* the socket is closed with 1009 and the handler returns
RecvRejected(size) ==
  /\ Receiving
  /\ size \in msgSizes
  /\ Rejected(size)
  /\ bytes + size <= MaxBytes
  /\ bytes' = bytes + size
  /\ idle' = 0
  /\ LET c == CloseWith(1009, IF size > MAX_MSG_BYTES THEN "too_large"
                                                      ELSE "session_too_large")
     IN  /\ wsState' = c.wsState
         /\ wsCloseCode' = c.wsCloseCode
         /\ wsCloseReason' = c.wsCloseReason
  /\ CnRestUnchanged
  /\ UNCHANGED << CONVERSATION_URL, GEMINI_API_KEY, chunks, forwarded,
                  silenceTimer, sttPlanned, sttActive, sttLastInterim,
                  sttLastFinal, llmStarted, llmDone, fwd, replies, sent,
                  replyMax, nChunks, nStt, nEos, sttWritten, fwdCount, nSilence,
                  nBad, offGwVars >>

\* a hello / start control message
RecvHello(size) ==
  /\ Receiving
  /\ Accepted(size)
  /\ ~sttPlanned            \* the model's client sends it once
  /\ sttPlanned' = TRUE
  /\ sent' = WsSend(sent, << Frame("ack", -1, FALSE, 0) >>)
  /\ UNCHANGED << CONVERSATION_URL, GEMINI_API_KEY, wsState, chunks, forwarded,
                  silenceTimer, sttActive, sttLastInterim, sttLastFinal,
                  llmStarted, llmDone, fwd, replies, replyMax, nChunks, nStt,
                  nEos, sttWritten, fwdCount, nSilence,
                  wsCloseCode, wsCloseReason, nBad, offGwVars >>

\* an audio chunk: binary frame (binary = TRUE, which lazily starts the
\* recognizer when one is planned) or JSON audio message; the chunk is
\* appended, the silence timer re-armed, the chunk written to the recognizer
RecvAudio(binary, size) ==
  /\ Receiving
  /\ Accepted(size)
  /\ nChunks < MaxChunks
  /\ nChunks' = nChunks + 1
  /\ sttActive' = (sttActive \/ (binary /\ sttPlanned))
  /\ chunks' = Append(chunks, nChunks + 1)
  /\ silenceTimer' = TRUE
  /\ sttWritten' = (sttWritten \/ sttActive')
  /\ UNCHANGED << CONVERSATION_URL, GEMINI_API_KEY, wsState, forwarded,
                  sttPlanned, sttLastInterim, sttLastFinal, llmStarted,
                  llmDone, fwd, replies, sent, replyMax, nStt, nEos, fwdCount,
                  nSilence,
                  wsCloseCode, wsCloseReason, nBad, offGwVars >>

\* a silence timer that ignored the reply latch
SilenceIgnoresLatch == BestText # ""

\* the silence timer starts the streaming reply: line 106
SilenceStartsReply == ~llmStarted /\ BestText # ""

\* the silence timer callback
SilenceFire ==
  /\ silenceTimer
  /\ silenceTimer' = FALSE
  /\ IF ~forwarded /\ chunks # << >>
       THEN /\ nSilence' = nSilence + 1
            /\ IF SilenceStartsReply
                 THEN /\ llmStarted' = TRUE
                      /\ replies' = RunLLMAndTTS(replies, sent, "silence").replies
                      /\ sent' = RunLLMAndTTS(replies, sent, "silence").sent
                 ELSE UNCHANGED << llmStarted, replies, sent >>
       ELSE UNCHANGED << nSilence, llmStarted, replies, sent >>
  /\ UNCHANGED << CONVERSATION_URL, GEMINI_API_KEY, wsState, chunks, forwarded,
                  sttPlanned, sttActive, sttLastInterim, sttLastFinal, llmDone,
                  fwd, replyMax, nChunks, nStt, nEos, sttWritten, fwdCount,
                  nonGwVars >>

\* the eos message starts the streaming reply and returns: lines 192-195
EosStartsReply == ~llmStarted /\ BestText # ""

\* an eos control message
RecvEos(size) ==
  /\ Receiving
  /\ Accepted(size)
  /\ nEos < MaxEos
  /\ nEos' = nEos + 1
  /\ IF EosStartsReply
       THEN /\ llmStarted' = TRUE
            /\ replies' = RunLLMAndTTS(replies, sent, "eos").replies
            /\ sent' = RunLLMAndTTS(replies, sent, "eos").sent
            /\ UNCHANGED << forwarded, silenceTimer, fwd, fwdCount >>
       ELSE /\ forwarded' = ForwardAndRespond.forwarded
            /\ silenceTimer' = ForwardAndRespond.silenceTimer
            /\ fwd' = ForwardAndRespond.fwd
            /\ fwdCount' = ForwardAndRespond.fwdCount
            /\ UNCHANGED << llmStarted, replies, sent >>
  /\ UNCHANGED << CONVERSATION_URL, GEMINI_API_KEY, wsState, chunks, sttPlanned,
                  sttActive, sttLastInterim, sttLastFinal, llmDone, replyMax,
                  nChunks, nStt, sttWritten, nSilence,
                  wsCloseCode, wsCloseReason, nBad, offGwVars >>

\* what a message handler that touches neither the turn nor the socket keeps
TurnUnchanged ==
  UNCHANGED << CONVERSATION_URL, GEMINI_API_KEY, chunks, forwarded, silenceTimer,
               sttPlanned, sttActive, sttLastInterim, sttLastFinal, llmStarted,
               llmDone, fwd, replies, replyMax, nChunks, nStt, nEos, sttWritten,
               fwdCount, nSilence, offGwVars >>

\* the text message 'ping': answered with the text 'pong' (line 163)
RecvPing(size) ==
  /\ Receiving
  /\ Accepted(size)
  /\ sent' = WsSend(sent, << Frame("pong", -1, FALSE, 0) >>)
  /\ UNCHANGED << wsState, wsCloseCode, wsCloseReason, nBad >>
  /\ TurnUnchanged

\* a bye control message: the socket is closed with 1000 (line 200)
RecvBye(size) ==
  /\ Receiving
  /\ Accepted(size)
  /\ wsState' = CloseWith(1000, "bye").wsState
  /\ wsCloseCode' = CloseWith(1000, "bye").wsCloseCode
  /\ wsCloseReason' = CloseWith(1000, "bye").wsCloseReason
  /\ UNCHANGED << sent, nBad >>
  /\ TurnUnchanged

\* a text message that is not JSON, or JSON of no known type (an audio
\* message without a string chunk included): JSON.parse throws into the empty
\* catch or no branch matches, and the handler ends (lines 165-204)
RecvMalformed(size) ==
  /\ Receiving
  /\ Accepted(size)
  /\ nBad < MaxBad
  /\ nBad' = nBad + 1
  /\ UNCHANGED << sent, wsState, wsCloseCode, wsCloseReason >>
  /\ TurnUnchanged

\* what a timer callback of the connection keeps
TimerUnchanged ==
  UNCHANGED << MAX_BYTES, IDLE_SEC, MAX_CONN_SECS, bytes, msgSizes, sent, nBad >>

\* a second passes on a connection whose intervals run: the idle interval
\* (1000 ms) is due, the ping interval every PingEverySec seconds
Tick ==
  /\ wsState # "closed"
  /\ ~idleDue /\ ~pingDue
  /\ aliveSec < MaxSecs
  /\ aliveSec' = aliveSec + 1
  /\ idle' = idle + 1
  /\ idleDue' = TRUE
  /\ pingDue' = (aliveSec' % PingEverySec = 0)
  /\ UNCHANGED << wsState, wsCloseCode, wsCloseReason, peerAnswers, unanswered >>
  /\ TimerUnchanged
  /\ TurnUnchanged

\* lines 126-129: the age check, applied to the socket c that the idle check
\* left
AgeChecked(c) ==
  IF aliveSec >= MAX_CONN_SECS /\ c.wsState = "open"
    THEN [wsState |-> "closing", wsCloseCode |-> 1000, wsCloseReason |-> "max_conn_secs"]
    ELSE c

\* the callback of the idle interval (lines 121-130): the idle check, then
\* the age check
IdleTimerFire ==
  /\ wsState # "closed"
  /\ idleDue
  /\ idleDue' = FALSE
  /\ LET c == AgeChecked(IF idle >= IDLE_SEC THEN CloseWith(1001, "idle_timeout")
                                             ELSE Socket)
     IN  /\ wsState' = c.wsState
         /\ wsCloseCode' = c.wsCloseCode
         /\ wsCloseReason' = c.wsCloseReason
  /\ UNCHANGED << idle, aliveSec, pingDue, peerAnswers, unanswered >>
  /\ TimerUnchanged
  /\ TurnUnchanged

\* the callback of the ping interval (line 119): a ping goes out on an open
\* socket; no pong is awaited and no liveness is recorded
PingFire ==
  /\ wsState # "closed"
  /\ pingDue
  /\ pingDue' = FALSE
  /\ unanswered' = IF wsState = "open" /\ ~peerAnswers THEN unanswered + 1
                                                      ELSE unanswered
  /\ UNCHANGED << wsState, wsCloseCode, wsCloseReason, idle, aliveSec, idleDue,
                  peerAnswers >>
  /\ TimerUnchanged
  /\ TurnUnchanged

\* the peer stops answering pings (its pongs no longer arrive)
PeerStops ==
  /\ wsState # "closed"
  /\ peerAnswers
  /\ peerAnswers' = FALSE
  /\ UNCHANGED << wsState, wsCloseCode, wsCloseReason, idle, aliveSec, idleDue,
                  pingDue, unanswered >>
  /\ TimerUnchanged
  /\ TurnUnchanged

\* a recognition result triggers the reply: lines 270 (final) and 277 (interim)
SttStartsReply(alt, isFinal) ==
  /\ ~llmStarted
  /\ IF isFinal THEN NonBlank(alt) ELSE EarlyTrigger(alt)

\* the recognizer's data callback with one result
SttData(alt, isFinal) ==
  /\ sttActive
  /\ sttWritten
  /\ nStt < MaxStt
  /\ nStt' = nStt + 1
  /\ IF isFinal THEN /\ sttLastFinal' = alt
                     /\ UNCHANGED sttLastInterim
                ELSE /\ sttLastInterim' = alt
                     /\ UNCHANGED sttLastFinal
  /\ LET log == WsSend(sent, << Frame(IF isFinal THEN "stt_final" ELSE "stt_interim",
                                      -1, FALSE, 0) >>)
     IN  IF SttStartsReply(alt, isFinal)
           THEN /\ llmStarted' = TRUE
                /\ replies' = RunLLMAndTTS(replies, log, "stt").replies
                /\ sent' = RunLLMAndTTS(replies, log, "stt").sent
           ELSE /\ sent' = log
                /\ UNCHANGED << llmStarted, replies >>
  /\ UNCHANGED << CONVERSATION_URL, GEMINI_API_KEY, wsState, chunks, forwarded,
                  silenceTimer, sttPlanned, sttActive, llmDone, fwd, replyMax,
                  nChunks, nEos, sttWritten, fwdCount, nSilence,
                  nonGwVars >>

\* the close handler runs the reply or the forward as a last resort: line 138
CloseFinalizes == ~llmStarted /\ ~llmDone

\* the socket's close event (client close, network loss, or the end of a
\* close the server started)
WsClose ==
  /\ wsState # "closed"
  /\ wsState' = "closed"
  /\ IF CloseFinalizes /\ BestText # ""
       THEN /\ replies' = RunLLMAndTTS(replies, sent, "close").replies
            /\ UNCHANGED << sent, forwarded, silenceTimer, fwd, fwdCount >>
       ELSE IF CloseFinalizes /\ ~forwarded /\ chunks # << >>
         THEN /\ forwarded' = ForwardAndRespond.forwarded
              /\ silenceTimer' = ForwardAndRespond.silenceTimer
              /\ fwd' = ForwardAndRespond.fwd
              /\ fwdCount' = ForwardAndRespond.fwdCount
              /\ UNCHANGED << replies, sent >>
         ELSE UNCHANGED << replies, sent, forwarded, silenceTimer, fwd, fwdCount >>
  /\ UNCHANGED << CONVERSATION_URL, GEMINI_API_KEY, chunks, sttPlanned,
                  sttActive, sttLastInterim, sttLastFinal, llmStarted, llmDone,
                  replyMax, nChunks, nStt, nEos, sttWritten, nSilence,
                  nonGwVars >>

(***************************************************************************)
(* The Live gateway session.                                               *)
(*                                                                         *)
(* starts[k] is the k-th start message's async block:                      *)
(*   stage : "echo" (no upstream URL), "token" (openLiveSession awaits the *)
(*           access token), "bridged" (openLiveSession returned: the       *)
(*           upstream socket exists and the readiness timer was set),      *)
(*           "threw" (openLiveSession rejected)                            *)
(*   up    : the upstream socket: "none", "connecting", "rejected" (non-101*)
(*           response delivered), "open", "aborting" (close() called       *)
(*           before it opened: its error and close events are due),        *)
(*           "closing" (close() called while open), "errored" (error       *)
(*           emitted, close event due), "closed"                           *)
(*   timer : the readiness timer this start set: "none", "armed",          *)
(*           "fired", "cleared"                                            *)
(***************************************************************************)
LvFrame(t, v, k) == [t |-> t, v |-> v, k |-> k]

\* sendJson on the client socket: the frame goes out only while it is OPEN
LvSend(log, frames) == IF lvWs = "open" THEN log \o frames ELSE log

\* a connect-failure notice with the ack ahead of the error
AckFirstFallbackFrames(k) ==
  << LvFrame("ack", "echo", k), LvFrame("error", "live_connect_failed", k) >>

\* the connect-failure notice: error live_connect_failed, then ack echo
EchoFallbackFrames(k) ==
  << LvFrame("error", "live_connect_failed", k), LvFrame("ack", "echo", k) >>

\* the ack of a start whose upstream became ready
LiveAckFrames(k) == << LvFrame("ack", "live", k) >>

\* the close codes an upstream close event carries in the model: a normal
\* close and an abnormal one (connection lost, no close frame)
UpCloseCodes == {1000, 1006}

\* ws.close(code) is refused (throws) for a code that may not be sent
SendableCloseCode(code) == code \notin {1005, 1006}

\* bridge?.close(): upstream.close(1000, "gateway_shutdown") on bridge b
BridgeClose(ss, b) ==
  IF b = 0 THEN ss
  ELSE IF ss[b].up \in {"connecting", "rejected"} THEN [ss EXCEPT ![b].up = "aborting"]
  ELSE IF ss[b].up = "open" THEN [ss EXCEPT ![b].up = "closing"]
  ELSE ss

\* if (readyTimer) { clearTimeout(readyTimer); readyTimer = null }
ClearReadyTimer(ss) ==
  IF readyTimer # 0 /\ ss[readyTimer].timer = "armed"
    THEN [ss EXCEPT ![readyTimer].timer = "cleared"]
    ELSE ss

\* try { ws.close(code, reason) } catch {} on the client socket, as the
\* values of lvWs, lvCloseCode and lvCloseReason after the call
ClientClose(code, reason) ==
  IF lvWs = "open" /\ SendableCloseCode(code)
    THEN [lvWs |-> "closing", lvCloseCode |-> code, lvCloseReason |-> reason]
    ELSE [lvWs |-> lvWs, lvCloseCode |-> lvCloseCode, lvCloseReason |-> lvCloseReason]

LvInit ==
  /\ LIVE_API_WS_URL \in BOOLEAN
  /\ GOOGLE_API_KEY \in BOOLEAN
  /\ lvWs = "open"
  /\ lvCloseCode = 0
  /\ lvCloseReason = ""
  /\ bridge = 0
  /\ appKeepalive = FALSE
  /\ sentReady = FALSE
  /\ acked = FALSE
  /\ upstreamReady = FALSE
  /\ readyTimer = 0
  /\ starts = << >>
  /\ lvSent = << >>
  /\ nAudio = 0
  /\ upAudio = 0
  /\ isAlive = TRUE
  /\ lvIdle = 0
  /\ lvAge = 0
  /\ lvPinged = FALSE
  /\ lvBad = 0
  /\ lvPeerAnswers = TRUE
  /\ lvUnanswered = 0

\* inbound client messages are delivered until the close event
LvReceiving == lvWs \in {"open", "closing"}

\* the first statement of the message handler: ws.lastSeen = Date.now()
LastSeenNow ==
  /\ lvIdle' = 0
  /\ UNCHANGED << WS_IDLE_TIMEOUT_SEC, isAlive, lvAge, lvPinged, lvPeerAnswers,
                  lvUnanswered >>

\* openLiveSession returned for start k: the upstream socket is connecting,
\* bridge holds it and the readiness timer is set (lines 167, 225)
Bridged == [stage |-> "bridged", up |-> "connecting", timer |-> "armed"]

\* case "start": sendReadyOnce, startAppKeepalive, then the async block up to
\* its first suspension
LvStart ==
  /\ LvReceiving
  /\ Len(starts) < MaxStarts
  /\ sentReady' = TRUE
  /\ appKeepalive' = TRUE
  /\ LET k == Len(starts) + 1
         log == LvSend(lvSent, IF sentReady THEN << >> ELSE << LvFrame("status", "ready", k) >>)
     IN  IF ~LIVE_API_WS_URL
           THEN /\ starts' = Append(starts, [stage |-> "echo", up |-> "none", timer |-> "none"])
                /\ lvSent' = LvSend(log, << LvFrame("ack", "echo", k) >>)
                /\ acked' = TRUE
                /\ UNCHANGED << bridge, readyTimer >>
           ELSE IF GOOGLE_API_KEY
             THEN /\ starts' = Append(starts, Bridged)
                  /\ bridge' = k
                  /\ readyTimer' = k
                  /\ lvSent' = log
                  /\ UNCHANGED acked
             ELSE /\ starts' = Append(starts, [stage |-> "token", up |-> "none", timer |-> "none"])
                  /\ lvSent' = log
                  /\ UNCHANGED << bridge, readyTimer, acked >>
  /\ UNCHANGED << LIVE_API_WS_URL, GOOGLE_API_KEY, lvWs, lvCloseCode, lvCloseReason,
                  upstreamReady, nAudio, upAudio, lvBad, offLvVars >>
  /\ LastSeenNow

\* getAccessToken resolved for start k: the upstream socket is created and
\* openLiveSession returns
LvTokenOk(k) ==
  /\ starts[k].stage = "token"
  /\ starts' = [starts EXCEPT ![k] = Bridged]
  /\ bridge' = k
  /\ readyTimer' = k
  /\ UNCHANGED << LIVE_API_WS_URL, GOOGLE_API_KEY, lvWs, lvCloseCode, lvCloseReason,
                  appKeepalive, sentReady, acked, upstreamReady, lvSent,
                  nAudio, upAudio, nonLvVars >>

\* getAccessToken rejected for start k: the catch block falls back to echo
LvTokenFail(k) ==
  /\ starts[k].stage = "token"
  /\ starts' = [starts EXCEPT ![k].stage = "threw"]
  /\ lvSent' = LvSend(lvSent, EchoFallbackFrames(k))
  /\ acked' = TRUE
  /\ UNCHANGED << LIVE_API_WS_URL, GOOGLE_API_KEY, lvWs, lvCloseCode, lvCloseReason,
                  bridge, appKeepalive, sentReady, upstreamReady, readyTimer, nAudio,
                  upAudio, nonLvVars >>

\* an upstream_ready branch that acked whatever was sent before
ReadyAcksAlways == TRUE

\* the upstream_ready branch sends the ack: line 190
ReadyAcks == ~acked

\* upstream "open" of start k's socket: setup is sent, upstream_setup_sent is
\* passed through, then the upstream_ready branch of onEvent runs
UpOpen(k) ==
  /\ starts[k].up = "connecting"
  /\ upstreamReady' = TRUE
  /\ starts' = [ClearReadyTimer(starts) EXCEPT ![k].up = "open"]
  /\ readyTimer' = 0
  /\ lvSent' = LvSend(lvSent, << LvFrame("status", "upstream_setup_sent", k),
                                 LvFrame("status", "upstream_ready", k) >>
                              \o (IF ReadyAcks THEN LiveAckFrames(k) ELSE << >>))
  /\ acked' = TRUE
  /\ UNCHANGED << LIVE_API_WS_URL, GOOGLE_API_KEY, lvWs, lvCloseCode, lvCloseReason,
                  bridge, appKeepalive, sentReady, nAudio, upAudio, nonLvVars >>

\* upstream "unexpected-response" (non-101) of start k's socket: the
\* live_handshake_failed branch of onEvent runs
UpUnexpected(k) ==
  /\ starts[k].up = "connecting"
  /\ IF ~acked
       THEN /\ lvSent' = LvSend(lvSent, EchoFallbackFrames(k))
            /\ starts' = [ClearReadyTimer(starts) EXCEPT ![k].up = "rejected"]
            /\ readyTimer' = 0
            /\ acked' = TRUE
       ELSE /\ starts' = [starts EXCEPT ![k].up = "rejected"]
            /\ UNCHANGED << lvSent, readyTimer, acked >>
  /\ UNCHANGED << LIVE_API_WS_URL, GOOGLE_API_KEY, lvWs, lvCloseCode, lvCloseReason,
                  bridge, appKeepalive, sentReady, upstreamReady, nAudio, upAudio,
                  nonLvVars >>

\* onClose keeps the session open in echo mode: line 210
OnCloseFallsBack == ~acked

\* onClose(code, reason) of start k, applied after the frames in log were
\* sent and with the upstream socket moving to state up
LvOnClose(k, code, log, up) ==
  /\ IF OnCloseFallsBack
       THEN /\ lvSent' = LvSend(log, EchoFallbackFrames(k))
            /\ acked' = TRUE
            /\ UNCHANGED << lvWs, lvCloseCode, lvCloseReason >>
       ELSE /\ lvSent' = log
            /\ lvWs' = ClientClose(code, "upstream_closed").lvWs
            /\ lvCloseCode' = ClientClose(code, "upstream_closed").lvCloseCode
            /\ lvCloseReason' = ClientClose(code, "upstream_closed").lvCloseReason
            /\ UNCHANGED acked
  /\ starts' = [ClearReadyTimer(starts) EXCEPT ![k].up = up]
  /\ readyTimer' = 0

\* upstream "error" of start k's socket: upstream_error is passed through,
\* then onClose(1011, message).  A socket that had not opened emits its close
\* event (code 1006) in the same turn: that second onClose finds acked set,
\* its ws.close(1006) is refused and the timer is already cleared, so it
\* changes nothing.  An open socket emits its close event later.
UpError(k) ==
  /\ starts[k].up \in {"connecting", "open", "aborting"}
  /\ LvOnClose(k, 1011, LvSend(lvSent, << LvFrame("error", "upstream_error", k) >>),
               IF starts[k].up = "open" THEN "errored" ELSE "closed")
  /\ UNCHANGED << LIVE_API_WS_URL, GOOGLE_API_KEY, bridge, appKeepalive,
                  sentReady, upstreamReady, nAudio, upAudio, nonLvVars >>

\* upstream "close" of start k's socket with close code code: after an error
\* the code is 1006; an open or closing socket closes with any code
UpClose(k, code) ==
  /\ \/ starts[k].up = "errored" /\ code = 1006
     \/ starts[k].up \in {"open", "closing"}
  /\ LvOnClose(k, code, lvSent, "closed")
  /\ UNCHANGED << LIVE_API_WS_URL, GOOGLE_API_KEY, bridge, appKeepalive,
                  sentReady, upstreamReady, nAudio, upAudio, nonLvVars >>

\* the readiness timer acts: line 226
TimeoutFallsBack == ~acked

\* the readiness timer set by start k fires
ReadyTimeout(k) ==
  /\ starts[k].timer = "armed"
  /\ IF TimeoutFallsBack
       THEN /\ lvSent' = LvSend(lvSent, EchoFallbackFrames(k))
            /\ acked' = TRUE
            /\ starts' = [BridgeClose(starts, bridge) EXCEPT ![k].timer = "fired"]
       ELSE /\ starts' = [starts EXCEPT ![k].timer = "fired"]
            /\ UNCHANGED << lvSent, acked >>
  /\ UNCHANGED << LIVE_API_WS_URL, GOOGLE_API_KEY, lvWs, lvCloseCode, lvCloseReason,
                  bridge, appKeepalive, sentReady, upstreamReady, readyTimer, nAudio,
                  upAudio, nonLvVars >>

\* bridge?.ready(): the held bridge's socket is OPEN
BridgeReady == bridge # 0 /\ starts[bridge].up = "open"

\* case "client_audio": wellFormed tells whether chunk, format and rate pass
LvClientAudio(wellFormed) ==
  /\ LvReceiving
  /\ nAudio < MaxAudio
  /\ nAudio' = nAudio + 1
  /\ LastSeenNow
  /\ IF ~wellFormed
       THEN /\ lvSent' = LvSend(lvSent, << LvFrame("error", "bad_audio_format", 0) >>)
            /\ lvBad' = lvBad + 1
            /\ UNCHANGED upAudio
       ELSE /\ upAudio' = IF BridgeReady THEN upAudio + 1 ELSE upAudio
            /\ UNCHANGED << lvSent, lvBad >>
  /\ UNCHANGED << LIVE_API_WS_URL, GOOGLE_API_KEY, lvWs, lvCloseCode, lvCloseReason,
                  bridge, appKeepalive, sentReady, acked, upstreamReady, readyTimer,
                  starts, offLvVars >>

\* a message that is not JSON: the bad_json error is sent (lines 148-152)
LvBadJson ==
  /\ LvReceiving
  /\ lvBad < MaxBad
  /\ lvBad' = lvBad + 1
  /\ LastSeenNow
  /\ lvSent' = LvSend(lvSent, << LvFrame("error", "bad_json", 0) >>)
  /\ UNCHANGED << LIVE_API_WS_URL, GOOGLE_API_KEY, lvWs, lvCloseCode, lvCloseReason,
                  bridge, appKeepalive, sentReady, acked, upstreamReady, readyTimer,
                  starts, nAudio, upAudio, offLvVars >>

\* case "end_call": bye, bridge?.close(), ws.close(1000, "done")
LvEndCall ==
  /\ lvWs = "open"
  /\ lvSent' = LvSend(lvSent, << LvFrame("bye", "", 0) >>)
  /\ starts' = BridgeClose(starts, bridge)
  /\ lvWs' = ClientClose(1000, "done").lvWs
  /\ lvCloseCode' = ClientClose(1000, "done").lvCloseCode
  /\ lvCloseReason' = ClientClose(1000, "done").lvCloseReason
  /\ LastSeenNow
  /\ UNCHANGED << LIVE_API_WS_URL, GOOGLE_API_KEY, bridge, appKeepalive,
                  sentReady, acked, upstreamReady, readyTimer, nAudio, upAudio,
                  lvBad, offLvVars >>

\* the client socket's close event: bridge?.close(), the keepalive is cleared
LvWsClose ==
  /\ lvWs # "closed"
  /\ lvWs' = "closed"
  /\ starts' = BridgeClose(starts, bridge)
  /\ appKeepalive' = FALSE
  /\ UNCHANGED << LIVE_API_WS_URL, GOOGLE_API_KEY, lvCloseCode, lvCloseReason, bridge,
                  sentReady, acked, upstreamReady, readyTimer, lvSent, nAudio,
                  upAudio, nonLvVars >>

\* what the heartbeat leaves alone
BeatUnchanged ==
  UNCHANGED << LIVE_API_WS_URL, GOOGLE_API_KEY, bridge, appKeepalive, sentReady,
               acked, upstreamReady, readyTimer, starts, lvSent, nAudio, upAudio,
               WS_IDLE_TIMEOUT_SEC, lvBad, offLvVars >>

\* the heartbeat interval's callback for this connection, HeartbeatSec after
\* the last one (lines 343-353): a connection that did not answer the last
\* ping is terminated (its socket is destroyed; the close event follows);
\* otherwise it is pinged and closed with 1001 when it has been idle for
\* longer than the timeout
LvHeartbeat ==
  /\ lvWs # "closed"
  /\ lvAge < MaxLvSecs
  /\ lvAge' = lvAge + HeartbeatSec
  /\ lvIdle' = lvIdle + HeartbeatSec
  /\ IF ~isAlive
       THEN /\ lvWs' = "terminated"
            /\ UNCHANGED << isAlive, lvPinged, lvUnanswered, lvCloseCode, lvCloseReason >>
       ELSE /\ isAlive' = FALSE
            /\ lvPinged' = (lvPinged \/ lvWs = "open")
            /\ lvUnanswered' = IF lvWs = "open" /\ ~lvPeerAnswers
                                 THEN lvUnanswered + 1 ELSE lvUnanswered
            /\ IF lvIdle' > WS_IDLE_TIMEOUT_SEC
                 THEN /\ lvWs' = ClientClose(1001, "idle_timeout").lvWs
                      /\ lvCloseCode' = ClientClose(1001, "idle_timeout").lvCloseCode
                      /\ lvCloseReason' = ClientClose(1001, "idle_timeout").lvCloseReason
                 ELSE UNCHANGED << lvWs, lvCloseCode, lvCloseReason >>
  /\ UNCHANGED lvPeerAnswers
  /\ BeatUnchanged

\* a pong arrives: ws.isAlive = true (line 115)
LvPong ==
  /\ lvWs \in {"open", "closing"}
  /\ lvPinged
  /\ lvPeerAnswers
  /\ lvPinged' = FALSE
  /\ isAlive' = TRUE
  /\ UNCHANGED << lvWs, lvCloseCode, lvCloseReason, lvIdle, lvAge, lvPeerAnswers,
                  lvUnanswered >>
  /\ BeatUnchanged

\* the peer stops answering pings (its pongs no longer arrive)
LvPeerStops ==
  /\ lvWs # "closed"
  /\ lvPeerAnswers
  /\ lvPeerAnswers' = FALSE
  /\ UNCHANGED << lvWs, lvCloseCode, lvCloseReason, isAlive, lvIdle, lvAge,
                  lvPinged, lvUnanswered >>
  /\ BeatUnchanged

\* the defaults of the Live gateway's timeouts (line 27)
HbDefaults == WS_IDLE_TIMEOUT_SEC = 120

\* a Live session that is not in use
LvParked == LvInit /\ HbDefaults /\ ~LIVE_API_WS_URL /\ ~GOOGLE_API_KEY

(***************************************************************************)
(* The upgrade gates: server.on("upgrade") of the Live gateway             *)
(* (server/index.js, current), of the streaming gateway (ws-gateway) and   *)
(* of the earlier Live gateway (src/server/index.js).                      *)
(*                                                                         *)
(* A request is [gw, path, origin, ssp, header, query]:                    *)
(*   path   : "exact" (the WebSocket path, with or without a query         *)
(*            string), "longer" (a path that only starts with it, such as  *)
(*            /ws2), "other"                                               *)
(*   origin : "none" (no Origin header), "listed", "unlisted"              *)
(*   ssp, header, query : the token carried in Sec-WebSocket-Protocol, in  *)
(*            the token header (X-WS-Token / Authorization) and in the     *)
(*            query string: "none", "good" (equal to WS_TOKEN), "bad"      *)
(***************************************************************************)
Gateways == {"live", "stream", "legacy"}
Paths == {"exact", "longer", "other"}
Origins == {"none", "listed", "unlisted"}
Tokens == {"none", "good", "bad"}

\* the requests of the model: a channel the gateway never reads is empty
Requests ==
  { req \in [gw : Gateways, path : Paths, origin : Origins,
             ssp : Tokens, header : Tokens, query : Tokens] :
      /\ req.gw = "stream" => req.query = "none"
      /\ req.gw = "legacy" => req.ssp = "none" }

\* a || b || c on token strings: the first one that is present
FirstToken(a, b, c) == IF a # "none" THEN a ELSE IF b # "none" THEN b ELSE c

\* allowedOrigins.has(origin) / ALLOWED_ORIGIN.includes(origin)
OriginListed(origin) == ALLOWED_ORIGINS /\ origin = "listed"

\* provided !== expected, with expected = WS_TOKEN || ""
TokenMismatch(provided) == ~WS_TOKEN \/ provided # "good"

\* the Live gateway: origin (a missing one included), then path, then token
UpgradeLive(req) ==
  IF req.origin = "none" /\ ~ALLOW_NO_ORIGIN THEN 403
  ELSE IF req.origin # "none" /\ ~OriginListed(req.origin) THEN 403
  ELSE IF req.path # "exact" THEN 404
  ELSE IF REQUIRE_WS_TOKEN
          /\ TokenMismatch(FirstToken(req.ssp, req.header,
                                      IF ALLOW_QUERY_TOKEN THEN req.query ELSE "none"))
    THEN 401
  ELSE 101

\* the streaming gateway: path by prefix, then origin if a list is set and the
\* header is present, then the token of Sec-WebSocket-Protocol or Authorization
UpgradeStream(req) ==
  IF req.path = "other" THEN 404
  ELSE IF ALLOWED_ORIGINS /\ req.origin # "none" /\ ~OriginListed(req.origin) THEN 403
  ELSE IF REQUIRE_WS_TOKEN
          /\ (IF WS_TOKEN THEN FirstToken(req.ssp, req.header, "none") # "good"
                          ELSE FirstToken(req.ssp, req.header, "none") # "none")
    THEN 401
  ELSE 101

\* the earlier Live gateway: origin if present, then path, then the token of
\* X-WS-Token or the query string
UpgradeLegacy(req) ==
  IF req.origin # "none" /\ ~OriginListed(req.origin) THEN 403
  ELSE IF req.path # "exact" THEN 404
  ELSE IF REQUIRE_WS_TOKEN /\ TokenMismatch(FirstToken(req.header, req.query, "none"))
    THEN 401
  ELSE 101

UpgradeStatus(req) ==
  CASE req.gw = "live" -> UpgradeLive(req)
    [] req.gw = "stream" -> UpgradeStream(req)
    [] OTHER -> UpgradeLegacy(req)

UgInit ==
  /\ ALLOWED_ORIGINS \in BOOLEAN
  /\ ALLOW_NO_ORIGIN \in BOOLEAN
  /\ REQUIRE_WS_TOKEN \in BOOLEAN
  /\ WS_TOKEN \in BOOLEAN
  /\ ALLOW_QUERY_TOKEN \in BOOLEAN
  /\ ugReq = [gw |-> "live", path |-> "other", origin |-> "none",
              ssp |-> "none", header |-> "none", query |-> "none"]
  /\ ugStatus = 0
  /\ ugConns = 0
  /\ ugCount = 0

\* an upgrade request arrives: it is refused with an HTTP status and the
\* socket destroyed, or handed to wss.handleUpgrade, whose callback emits
\* "connection" (the handler that creates the session and its timers)
UpgradeRequest(req) ==
  /\ ugCount < MaxUpgrades
  /\ ugCount' = ugCount + 1
  /\ ugReq' = req
  /\ ugStatus' = UpgradeStatus(req)
  /\ ugConns' = IF UpgradeStatus(req) = 101 THEN ugConns + 1 ELSE ugConns
  /\ UNCHANGED << ALLOWED_ORIGINS, ALLOW_NO_ORIGIN, REQUIRE_WS_TOKEN, WS_TOKEN,
                  ALLOW_QUERY_TOKEN, nonUgVars >>

\* gates that are not in use
UgParked ==
  /\ UgInit
  /\ ~ALLOWED_ORIGINS /\ ~ALLOW_NO_ORIGIN /\ ~REQUIRE_WS_TOKEN /\ ~WS_TOKEN
  /\ ~ALLOW_QUERY_TOKEN

(***************************************************************************)
(* The conversation route's session (GET of app/api/ws/conversation).      *)
(* The handler of a start message is cut at its await import; the reply    *)
(* (runLLMAndTTS of the route) is counted when it is started.              *)
(***************************************************************************)
\* inbound messages are delivered until the close event
RtReceiving == rtWs \in {"open", "closing"}

\* try { ws.send(frame) } catch {}
RtSend(log, frames) == IF rtWs = "open" THEN log \o frames ELSE log

\* the route's socket: its state and the close it asked for
RtSocket ==
  [rtWs |-> rtWs, rtCloseCode |-> rtCloseCode, rtCloseReason |-> rtCloseReason]

\* try { ws.close(code, reason) } catch {}: the socket after the call
RtCloseWith(code, reason) ==
  IF rtWs = "open"
    THEN [rtWs |-> "closing", rtCloseCode |-> code, rtCloseReason |-> reason]
    ELSE RtSocket

\* the session when the handler passed to okUpgrade returns (lines 20-29, 88)
RtInit ==
  /\ rtWs = "open"
  /\ rtCloseCode = 0
  /\ rtCloseReason = ""
  /\ started = FALSE
  /\ stt = "null"
  /\ startedLLM = FALSE
  /\ lastInterim = ""
  /\ closed = FALSE
  /\ idleTimer = TRUE
  /\ preStartBytes = 0
  /\ importing = 0
  /\ rtSent = << >>
  /\ rtReplies = 0
  /\ rtWritten = 0
  /\ nRtStart = 0
  /\ nRtEnd = 0
  /\ nRtAudio = 0
  /\ nRtStt = 0

\* a start message, up to the await import (lines 41, 45-49)
RtStart ==
  /\ RtReceiving
  /\ nRtStart < 1              \* the model's client sends it once
  /\ nRtStart' = nRtStart + 1
  /\ idleTimer' = TRUE
  /\ started' = TRUE
  /\ importing' = importing + 1
  /\ UNCHANGED << rtWs, rtCloseCode, rtCloseReason, stt, startedLLM, lastInterim,
                  closed, preStartBytes, rtSent, rtReplies, rtWritten, nRtEnd,
                  nRtAudio, nRtStt, nonRtVars >>

\* the import resolved: the recognizer is created and its callbacks are set
\* (lines 50-59)
RtStartResume ==
  /\ importing > 0
  /\ importing' = importing - 1
  /\ stt' = "live"
  /\ UNCHANGED << rtWs, rtCloseCode, rtCloseReason, started, startedLLM,
                  lastInterim, closed, idleTimer, preStartBytes, rtSent,
                  rtReplies, rtWritten, nRtStart, nRtEnd, nRtAudio, nRtStt,
                  nonRtVars >>

\* an end message starts the reply (line 64)
EndStartsReply == ~startedLLM /\ NonBlank(lastInterim)

\* an end message (lines 41, 61-68)
RtEnd ==
  /\ RtReceiving
  /\ nRtEnd < MaxEos
  /\ nRtEnd' = nRtEnd + 1
  /\ idleTimer' = TRUE
  /\ stt' = IF stt = "live" THEN "ended" ELSE stt
  /\ IF EndStartsReply
       THEN /\ startedLLM' = TRUE
            /\ rtReplies' = rtReplies + 1
            /\ UNCHANGED rtSent
       ELSE /\ rtSent' = IF startedLLM THEN rtSent ELSE RtSend(rtSent, << "ai_done" >>)
            /\ UNCHANGED << startedLLM, rtReplies >>
  /\ UNCHANGED << rtWs, rtCloseCode, rtCloseReason, started, lastInterim, closed,
                  preStartBytes, importing, rtWritten, nRtStart, nRtAudio, nRtStt,
                  nonRtVars >>

\* lines 73-74: the bytes of a message that arrives before the recognizer
\* exists are counted, and over the cap the socket is closed with 1009; the
\* socket after the check
PreStartChecked(size) ==
  IF preStartBytes + size > MAX_PRESTART_BYTES
    THEN RtCloseWith(1009, "too_much_unstarted_data")
    ELSE RtSocket

\* a binary message of size MiB (lines 41, 70-75)
RtBinary(size) ==
  /\ RtReceiving
  /\ nRtAudio < MaxRtAudio
  /\ nRtAudio' = nRtAudio + 1
  /\ idleTimer' = TRUE
  /\ IF started /\ stt # "null"
       THEN /\ rtWritten' = IF stt = "live" THEN rtWritten + 1 ELSE rtWritten
            /\ UNCHANGED << preStartBytes, rtWs, rtCloseCode, rtCloseReason >>
       ELSE /\ preStartBytes' = preStartBytes + size
            /\ rtWs' = PreStartChecked(size).rtWs
            /\ rtCloseCode' = PreStartChecked(size).rtCloseCode
            /\ rtCloseReason' = PreStartChecked(size).rtCloseReason
            /\ UNCHANGED rtWritten
  /\ UNCHANGED << started, stt, startedLLM, lastInterim, closed, importing,
                  rtSent, rtReplies, nRtStart, nRtEnd, nRtStt, nonRtVars >>

\* a text message that is not JSON or is of another type: touch() only
RtText ==
  /\ RtReceiving
  /\ idleTimer' = TRUE
  /\ UNCHANGED << rtWs, rtCloseCode, rtCloseReason, started, stt, startedLLM,
                  lastInterim, closed, preStartBytes, importing, rtSent,
                  rtReplies, rtWritten, nRtStart, nRtEnd, nRtAudio, nRtStt,
                  nonRtVars >>

\* the recognizer has audio and delivers callbacks
RtRecognizing == stt \in {"live", "ended"} /\ rtWritten > 0 /\ nRtStt < MaxRtStt

\* the recognizer's interim callback (line 51)
RtInterim(alt) ==
  /\ RtRecognizing
  /\ nRtStt' = nRtStt + 1
  /\ lastInterim' = alt
  /\ rtSent' = RtSend(rtSent, << "stt_interim" >>)
  /\ UNCHANGED << rtWs, rtCloseCode, rtCloseReason, started, stt, startedLLM,
                  closed, idleTimer, preStartBytes, importing, rtReplies,
                  rtWritten, nRtStart, nRtEnd, nRtAudio, nonRtVars >>

\* the recognizer's final callback (line 52)
RtFinal ==
  /\ RtRecognizing
  /\ nRtStt' = nRtStt + 1
  /\ IF startedLLM \/ closed
       THEN UNCHANGED << startedLLM, rtReplies >>
       ELSE /\ startedLLM' = TRUE
            /\ rtReplies' = rtReplies + 1
  /\ UNCHANGED << rtWs, rtCloseCode, rtCloseReason, started, stt, lastInterim,
                  closed, idleTimer, preStartBytes, importing, rtSent, rtWritten,
                  nRtStart, nRtEnd, nRtAudio, nonRtVars >>

\* the recognizer's error callback (lines 53-58)
RtSttError ==
  /\ RtRecognizing
  /\ nRtStt' = nRtStt + 1
  /\ IF startedLLM \/ closed
       THEN UNCHANGED << startedLLM, rtReplies, rtSent >>
       ELSE IF lastInterim # ""
         THEN /\ startedLLM' = TRUE
              /\ rtReplies' = rtReplies + 1
              /\ UNCHANGED rtSent
         ELSE /\ rtSent' = RtSend(rtSent, << "ai_done" >>)
              /\ UNCHANGED << startedLLM, rtReplies >>
  /\ UNCHANGED << rtWs, rtCloseCode, rtCloseReason, started, stt, lastInterim,
                  closed, idleTimer, preStartBytes, importing, rtWritten,
                  nRtStart, nRtEnd, nRtAudio, nonRtVars >>

\* the idle timeout fires (line 33)
RtIdleFire ==
  /\ idleTimer
  /\ idleTimer' = FALSE
  /\ rtWs' = RtCloseWith(1000, "idle_timeout").rtWs
  /\ rtCloseCode' = RtCloseWith(1000, "idle_timeout").rtCloseCode
  /\ rtCloseReason' = RtCloseWith(1000, "idle_timeout").rtCloseReason
  /\ UNCHANGED << started, stt, startedLLM, lastInterim, closed, preStartBytes,
                  importing, rtSent, rtReplies, rtWritten, nRtStart, nRtEnd,
                  nRtAudio, nRtStt, nonRtVars >>

\* the socket's close event (line 85)
RtOnClose ==
  /\ rtWs # "closed"
  /\ rtWs' = "closed"
  /\ closed' = TRUE
  /\ idleTimer' = FALSE
  /\ stt' = IF stt = "live" THEN "ended" ELSE stt
  /\ UNCHANGED << rtCloseCode, rtCloseReason, started, startedLLM, lastInterim,
                  preStartBytes, importing, rtSent, rtReplies, rtWritten,
                  nRtStart, nRtEnd, nRtAudio, nRtStt, nonRtVars >>

\* no connection to the conversation route
RtParked ==
  /\ rtWs = "closed"
  /\ rtCloseCode = 0
  /\ rtCloseReason = ""
  /\ started = FALSE
  /\ stt = "null"
  /\ startedLLM = FALSE
  /\ lastInterim = ""
  /\ closed = FALSE
  /\ idleTimer = FALSE
  /\ preStartBytes = 0
  /\ importing = 0
  /\ rtSent = << >>
  /\ rtReplies = 0
  /\ rtWritten = 0
  /\ nRtStart = 0
  /\ nRtEnd = 0
  /\ nRtAudio = 0
  /\ nRtStt = 0

(***************************************************************************)
(* Voice activity detection (hooks/use-voice-activity-detection.ts and the *)
(* earlier ai-phone-system/hooks/use-voice-activity-detection.ts).  Times  *)
(* are in milliseconds; a null ref is Null.  One of the two hooks is       *)
(* mounted (hook); the parent's callbacks are counted.                     *)
(***************************************************************************)
Null == -1

Max(a, b) == IF a >= b THEN a ELSE b

\* the option sets the model tries: the silence window above and below the
\* minimum speech duration
VadOptions ==
  { [silenceThreshold |-> 500, minSilenceDuration |-> 300, minSpeechDuration |-> 300,
     maxSpeechDuration |-> 800, zeroInputWatchdogMs |-> 300],
    [silenceThreshold |-> 100, minSilenceDuration |-> 100, minSpeechDuration |-> 300,
     maxSpeechDuration |-> 600, zeroInputWatchdogMs |-> 500] }

\* the energy of one frame: at most 1e-4, below volumeThreshold, at least
\* volumeThreshold
Levels == {"zero", "quiet", "loud"}

\* a timer whose callback may run as soon as the timer is set
DueAtOnce(due) == due # Null

\* a timer set for time due whose callback has not run yet and is not cleared
Due(due) == due # Null /\ due <= now

\* the first frame of the run of frames below the threshold that the frame
\* of energy level ends with
QuietSinceAfter(level) ==
  IF level = "loud" THEN Null ELSE IF quietSince = Null THEN now ELSE quietSince

VadOptionsUnchanged ==
  UNCHANGED << hook, silenceThreshold, minSilenceDuration, minSpeechDuration,
               maxSpeechDuration, zeroInputWatchdogMs >>

LgUnchanged ==
  UNCHANGED << lgAnalyser, lgIsSpeaking, lgSpeechStartTime, lgSilenceTimerDue,
               lgMaxTimerDue >>

CurUnchanged ==
  UNCHANGED << isVADRunning, isSpeaking, speechStartTime, silenceStartTime,
               maxDurationTimer, maxTimerDue, zeroInputAccum, lastFrameTs, nVadStop >>

\* lines 144-160: the zero-input watchdog of a frame that comes dt after the
\* frame before it; the accumulator and the number of signals after it
ZeroInputAfter(level, dt) ==
  IF level = "zero"
    THEN IF zeroInputAccum + dt >= zeroInputWatchdogMs
           THEN [accum |-> -1, fired |-> 1]
           ELSE [accum |-> zeroInputAccum + dt, fired |-> 0]
    ELSE IF zeroInputAccum >= 0
           THEN [accum |-> 0, fired |-> 0]
           ELSE [accum |-> zeroInputAccum, fired |-> 0]

\* analyzeAudio of the current hook (lines 114-206) on a frame of the given
\* energy
VadFrame(level) ==
  /\ hook = "current"
  /\ isVADRunning
  /\ frameDue
  /\ frameDue' = FALSE
  /\ energy' = level
  /\ quietSince' = QuietSinceAfter(level)
  /\ lastFrameTs' = now
  /\ LET dt == IF lastFrameTs # Null THEN now - lastFrameTs ELSE 0
         z == ZeroInputAfter(level, dt)
     IN /\ zeroInputAccum' = z.accum
        /\ nZeroInput' = nZeroInput + z.fired
  /\ IF level = "loud" /\ ~isSpeaking
       THEN /\ isSpeaking' = TRUE
            /\ speechStartTime' = now
            /\ silenceStartTime' = Null
            /\ nSpeechStart' = nSpeechStart + 1
            /\ segMaxReached' = 0
            /\ IF ~maxDurationTimer
                 THEN maxDurationTimer' = TRUE /\ maxTimerDue' = now + maxSpeechDuration
                 ELSE UNCHANGED << maxDurationTimer, maxTimerDue >>
            /\ UNCHANGED nSpeechEnd
       ELSE IF level # "loud" /\ isSpeaking
         THEN LET silenceStart == IF silenceStartTime = Null THEN now ELSE silenceStartTime
                  silenceSec == now - silenceStart
                  speechSec == IF speechStartTime # Null THEN now - speechStartTime ELSE 0
              IN IF /\ silenceSec >= Max(silenceThreshold, minSilenceDuration)
                    /\ speechSec >= minSpeechDuration
                   THEN /\ isSpeaking' = FALSE
                        /\ speechStartTime' = Null
                        /\ silenceStartTime' = Null
                        /\ maxDurationTimer' = FALSE
                        /\ maxTimerDue' = Null
                        /\ nSpeechEnd' = nSpeechEnd + 1
                        /\ UNCHANGED << nSpeechStart, segMaxReached >>
                   ELSE /\ silenceStartTime' = silenceStart
                        /\ UNCHANGED << isSpeaking, speechStartTime, maxDurationTimer,
                                        maxTimerDue, nSpeechStart, nSpeechEnd,
                                        segMaxReached >>
         ELSE UNCHANGED << isSpeaking, speechStartTime, silenceStartTime,
                           maxDurationTimer, maxTimerDue, nSpeechStart, nSpeechEnd,
                           segMaxReached >>
  /\ UNCHANGED << now, isVADRunning, nVadStop, nMaxReached >>
  /\ VadOptionsUnchanged
  /\ LgUnchanged
  /\ UNCHANGED nonVdVars

\* the callback of the max-duration timer (lines 172-174): the ref keeps the
\* timer that has fired
VadMaxTimerFire ==
  /\ hook = "current"
  /\ Due(maxTimerDue)
  /\ maxTimerDue' = Null
  /\ nMaxReached' = nMaxReached + 1
  /\ segMaxReached' = segMaxReached + 1
  /\ UNCHANGED << now, frameDue, energy, quietSince, isVADRunning, isSpeaking,
                  speechStartTime, silenceStartTime, maxDurationTimer, zeroInputAccum,
                  lastFrameTs, nVadStop, nSpeechStart, nSpeechEnd, nZeroInput >>
  /\ VadOptionsUnchanged
  /\ LgUnchanged
  /\ UNCHANGED nonVdVars

\* startVAD (lines 218-304), the audio graph being built without an error
VadStart ==
  /\ hook = "current"
  /\ IF isVADRunning
       THEN UNCHANGED << speechStartTime, zeroInputAccum, lastFrameTs, isVADRunning,
                         frameDue >>
       ELSE /\ speechStartTime' = Null
            /\ zeroInputAccum' = 0
            /\ lastFrameTs' = Null
            /\ isVADRunning' = TRUE
            /\ frameDue' = TRUE
  /\ UNCHANGED << now, energy, quietSince, isSpeaking, silenceStartTime,
                  maxDurationTimer, maxTimerDue, nVadStop, nSpeechStart, nSpeechEnd,
                  nMaxReached, nZeroInput, segMaxReached >>
  /\ VadOptionsUnchanged
  /\ LgUnchanged
  /\ UNCHANGED nonVdVars

\* stopVAD (lines 306-382): an unmount stop while the conversation listens is
\* ignored unless the component really unmounts
VadStop(reason, convState, isUnmounting) ==
  /\ hook = "current"
  /\ nVadStop < MaxVadStops
  /\ IF ~isVADRunning \/ (reason = "unmount" /\ convState = "listening" /\ ~isUnmounting)
       THEN UNCHANGED << frameDue, maxDurationTimer, maxTimerDue, isSpeaking,
                         speechStartTime, silenceStartTime, isVADRunning, nVadStop >>
       ELSE /\ frameDue' = FALSE
            /\ maxDurationTimer' = FALSE
            /\ maxTimerDue' = Null
            /\ isSpeaking' = FALSE
            /\ speechStartTime' = Null
            /\ silenceStartTime' = Null
            /\ isVADRunning' = FALSE
            /\ nVadStop' = nVadStop + 1
  /\ UNCHANGED << now, energy, quietSince, zeroInputAccum, lastFrameTs, nSpeechStart,
                  nSpeechEnd, nMaxReached, nZeroInput, segMaxReached >>
  /\ VadOptionsUnchanged
  /\ LgUnchanged
  /\ UNCHANGED nonVdVars

\* analyzeAudio of the earlier hook (lines 58-156) on a frame whose energy is
\* above the adaptive threshold (loud) or not, startTime being the ref's value
LgAnalyze(level, startTime) ==
  /\ frameDue' = FALSE
  /\ energy' = level
  /\ quietSince' = QuietSinceAfter(level)
  /\ IF level = "loud" /\ ~lgIsSpeaking
       THEN /\ lgSpeechStartTime' = now
            /\ lgSilenceTimerDue' = Null
            /\ lgMaxTimerDue' = now + maxSpeechDuration
            /\ lgIsSpeaking' = TRUE
            /\ nSpeechStart' = nSpeechStart + 1
            /\ segMaxReached' = 0
       ELSE /\ lgSpeechStartTime' = startTime
            /\ lgSilenceTimerDue' = IF level # "loud" /\ lgIsSpeaking
                                      THEN now + silenceThreshold
                                      ELSE lgSilenceTimerDue
            /\ UNCHANGED << lgMaxTimerDue, lgIsSpeaking, nSpeechStart, segMaxReached >>
  /\ UNCHANGED << now, nSpeechEnd, nMaxReached, nZeroInput >>
  /\ VadOptionsUnchanged
  /\ CurUnchanged
  /\ UNCHANGED nonVdVars

\* a frame of the earlier hook's animation loop
LgFrame(level) ==
  /\ hook = "legacy"
  /\ lgAnalyser
  /\ frameDue
  /\ LgAnalyze(level, lgSpeechStartTime)
  /\ UNCHANGED lgAnalyser

\* the callback of the silence timer (lines 131-152)
LgSilenceTimerFire ==
  /\ hook = "legacy"
  /\ Due(lgSilenceTimerDue)
  /\ lgSilenceTimerDue' = Null
  /\ LET speechDuration == IF lgSpeechStartTime # Null THEN now - lgSpeechStartTime ELSE 0
     IN IF speechDuration >= minSpeechDuration
          THEN /\ lgIsSpeaking' = FALSE
               /\ nSpeechEnd' = nSpeechEnd + 1
               /\ lgMaxTimerDue' = Null
          ELSE UNCHANGED << lgIsSpeaking, nSpeechEnd, lgMaxTimerDue >>
  /\ UNCHANGED << now, frameDue, energy, quietSince, lgAnalyser, lgSpeechStartTime,
                  nSpeechStart, nMaxReached, nZeroInput, segMaxReached >>
  /\ VadOptionsUnchanged
  /\ CurUnchanged
  /\ UNCHANGED nonVdVars

\* the callback of the max-duration timer (lines 116-119)
LgMaxTimerFire ==
  /\ hook = "legacy"
  /\ Due(lgMaxTimerDue)
  /\ lgMaxTimerDue' = Null
  /\ nMaxReached' = nMaxReached + 1
  /\ segMaxReached' = segMaxReached + 1
  /\ UNCHANGED << now, frameDue, energy, quietSince, lgAnalyser, lgIsSpeaking,
                  lgSpeechStartTime, lgSilenceTimerDue, nSpeechStart, nSpeechEnd,
                  nZeroInput >>
  /\ VadOptionsUnchanged
  /\ CurUnchanged
  /\ UNCHANGED nonVdVars

\* startVAD of the earlier hook (lines 169-199), called while it is stopped:
\* it resets the refs and runs analyzeAudio at once
LgStart(level) ==
  /\ hook = "legacy"
  /\ ~lgAnalyser
  /\ lgAnalyser' = TRUE
  /\ LgAnalyze(level, Null)

\* stopVAD of the earlier hook (lines 201-232)
LgStop ==
  /\ hook = "legacy"
  /\ lgAnalyser
  /\ nVadStop < MaxVadStops
  /\ nVadStop' = nVadStop + 1
  /\ frameDue' = FALSE
  /\ lgSilenceTimerDue' = Null
  /\ lgMaxTimerDue' = Null
  /\ lgAnalyser' = FALSE
  /\ lgIsSpeaking' = FALSE
  /\ lgSpeechStartTime' = Null
  /\ UNCHANGED << now, energy, quietSince, nSpeechStart, nSpeechEnd, nMaxReached,
                  nZeroInput, segMaxReached >>
  /\ VadOptionsUnchanged
  /\ UNCHANGED << isVADRunning, isSpeaking, speechStartTime, silenceStartTime,
                  maxDurationTimer, maxTimerDue, zeroInputAccum, lastFrameTs >>
  /\ UNCHANGED nonVdVars

\* TickMs pass: the timers that were due have run, the frame of the last
\* repaint has been analyzed, and the next repaint's frame is due if the
\* animation loop runs
VadTick ==
  /\ hook # "none"
  /\ now + TickMs <= MaxVadMs
  /\ ~frameDue
  /\ ~Due(maxTimerDue) /\ ~Due(lgSilenceTimerDue) /\ ~Due(lgMaxTimerDue)
  /\ now' = now + TickMs
  /\ frameDue' = (isVADRunning \/ lgAnalyser)
  /\ UNCHANGED << energy, quietSince, nSpeechStart, nSpeechEnd, nMaxReached,
                  nZeroInput, segMaxReached >>
  /\ VadOptionsUnchanged
  /\ CurUnchanged
  /\ LgUnchanged
  /\ UNCHANGED nonVdVars

\* the refs of both hooks as useRef creates them, and no callback called
VadRefsInit ==
  /\ now = TickMs
  /\ frameDue = FALSE
  /\ energy = "zero"
  /\ quietSince = Null
  /\ isVADRunning = FALSE
  /\ isSpeaking = FALSE
  /\ speechStartTime = Null
  /\ silenceStartTime = Null
  /\ maxDurationTimer = FALSE
  /\ maxTimerDue = Null
  /\ zeroInputAccum = 0
  /\ lastFrameTs = Null
  /\ lgAnalyser = FALSE
  /\ lgIsSpeaking = FALSE
  /\ lgSpeechStartTime = Null
  /\ lgSilenceTimerDue = Null
  /\ lgMaxTimerDue = Null
  /\ nVadStop = 0
  /\ nSpeechStart = 0
  /\ nSpeechEnd = 0
  /\ nMaxReached = 0
  /\ nZeroInput = 0
  /\ segMaxReached = 0

\* one of the hooks as mounted, before startVAD, with one of the option sets
VadMounted ==
  /\ \E o \in VadOptions :
       /\ silenceThreshold = o.silenceThreshold
       /\ minSilenceDuration = o.minSilenceDuration
       /\ minSpeechDuration = o.minSpeechDuration
       /\ maxSpeechDuration = o.maxSpeechDuration
       /\ zeroInputWatchdogMs = o.zeroInputWatchdogMs
  /\ VadRefsInit

\* no hook is mounted; the options at their defaults (lines 62-66)
VadParked ==
  /\ hook = "none"
  /\ silenceThreshold = 1000
  /\ minSilenceDuration = 300
  /\ minSpeechDuration = 300
  /\ maxSpeechDuration = 30000
  /\ zeroInputWatchdogMs = 8000
  /\ VadRefsInit

(***************************************************************************)
(* The recorder (lib/recorder.ts) over the capture hook                    *)
(* (hooks/use-webrtc-audio.ts), as the call page wires them: the hook's    *)
(* startRecording and stopRecording are the handlers, isRecording() reads  *)
(* the hook's isRecording state as of the last render.  The recorder is    *)
(* enabled and initialised.  A call runs up to its first await that really *)
(* waits; what follows the wait is another action.                         *)
(***************************************************************************)
\* lines 85-114 of startRecording: a new MediaRecorder on the stream replaces
\* the one in mediaRecorderRef and starts recording; the state update waits
\* for the next render
DeviceStarted ==
  /\ audioChunks' = 0
  /\ recorders' = Append(recorders, "recording")
  /\ mediaRecorderRef' = Len(recorders) + 1
  /\ renderPending' = TRUE
  /\ nextIsRecording' = TRUE

StopSideUnchanged ==
  UNCHANGED << stopping, isStoppingRef, stopPromiseRef, stopPc, nRecStop,
               nStopResolved, nStopFailed, handed, nRecData, stream, isRecording >>

\* RecorderSoT.start (recorder.ts 26-46) calling startRecording (68-124);
\* suspended tells whether the audio context has to be resumed first
RecStart(suspended) ==
  /\ nRecStart < MaxRecStarts
  /\ nRecStart' = nRecStart + 1
  /\ stopAfterStart' = FALSE
  /\ IF starting \/ isRecording \/ ~stream \/ isStartingRef
       THEN UNCHANGED << starting, isStartingRef, startPc, audioChunks, recorders,
                         mediaRecorderRef, renderPending, nextIsRecording >>
       ELSE IF suspended
         THEN /\ starting' = TRUE
              /\ isStartingRef' = TRUE
              /\ startPc' = "resuming"
              /\ UNCHANGED << audioChunks, recorders, mediaRecorderRef, renderPending,
                              nextIsRecording >>
         ELSE /\ DeviceStarted
              /\ UNCHANGED << starting, isStartingRef, startPc >>
  /\ StopSideUnchanged
  /\ UNCHANGED nonRcVars

\* audioContext.resume() has resolved: the rest of startRecording, then the
\* finally of RecorderSoT.start
RecResumed ==
  /\ startPc = "resuming"
  /\ DeviceStarted
  /\ isStartingRef' = FALSE
  /\ starting' = FALSE
  /\ startPc' = "idle"
  /\ UNCHANGED << nRecStart, stopAfterStart >>
  /\ StopSideUnchanged
  /\ UNCHANGED nonRcVars

\* React renders the component: the callbacks and isRecordingRef see the
\* state that setIsRecording asked for
ReactRender ==
  /\ renderPending
  /\ renderPending' = FALSE
  /\ isRecording' = nextIsRecording
  /\ UNCHANGED << starting, stopping, nextIsRecording, stream, isStartingRef,
                  isStoppingRef, stopPromiseRef, mediaRecorderRef, recorders,
                  audioChunks, startPc, stopPc, nRecStart, nRecStop, nStopResolved,
                  nStopFailed, handed, stopAfterStart, nRecData >>
  /\ UNCHANGED nonRcVars

\* RecorderSoT.stop (recorder.ts 48-64) calling stopRecording (126-203)
RecStop ==
  /\ nRecStop < MaxRecStops
  /\ nRecStop' = nRecStop + 1
  /\ stopAfterStart' = (nRecStart > 0)
  /\ IF stopping \/ ~isRecording \/ mediaRecorderRef = 0
       THEN \* skipped, or stopRecording returns at once: the call resolves
            /\ nStopResolved' = nStopResolved + 1
            /\ UNCHANGED << stopping, isStoppingRef, stopPromiseRef, recorders,
                            renderPending, nextIsRecording, stopPc, nStopFailed >>
       ELSE IF isStoppingRef /\ stopPromiseRef
         THEN \* stopRecording returns the promise of the stop in progress
              /\ stopping' = TRUE
              /\ stopPc' = "waiting"
              /\ UNCHANGED << isStoppingRef, stopPromiseRef, recorders, renderPending,
                              nextIsRecording, nStopResolved, nStopFailed >>
         ELSE IF recorders[mediaRecorderRef] = "recording"
           THEN /\ stopping' = TRUE
                /\ isStoppingRef' = TRUE
                /\ stopPromiseRef' = TRUE
                /\ recorders' = [recorders EXCEPT ![mediaRecorderRef] = "stopRequested"]
                /\ renderPending' = TRUE
                /\ nextIsRecording' = FALSE
                /\ stopPc' = "waiting"
                /\ UNCHANGED << nStopResolved, nStopFailed >>
           ELSE \* requestData() on an inactive recorder throws: the call rejects
                /\ nStopFailed' = nStopFailed + 1
                /\ UNCHANGED << stopping, isStoppingRef, stopPromiseRef, recorders,
                                renderPending, nextIsRecording, stopPc, nStopResolved >>
  /\ UNCHANGED << starting, isRecording, stream, isStartingRef, mediaRecorderRef,
                  audioChunks, startPc, nRecStart, handed, nRecData >>
  /\ UNCHANGED nonRcVars

\* the recorder's timeslice elapses: ondataavailable (lines 100-104)
MrData(i) ==
  /\ recorders[i] = "recording"
  /\ nRecData < MaxRecData
  /\ nRecData' = nRecData + 1
  /\ audioChunks' = audioChunks + 1
  /\ UNCHANGED << starting, stopping, isRecording, renderPending, nextIsRecording,
                  stream, isStartingRef, isStoppingRef, stopPromiseRef,
                  mediaRecorderRef, recorders, startPc, stopPc, nRecStart, nRecStop,
                  nStopResolved, nStopFailed, handed, stopAfterStart >>
  /\ UNCHANGED nonRcVars

\* the recorder that was told to stop delivers its last data and fires stop:
\* ondataavailable, then onstop (lines 157-173) up to await onAudioData(blob)
MrStopEvents(i) ==
  /\ recorders[i] = "stopRequested"
  /\ audioChunks' = audioChunks + 1
  /\ recorders' = [recorders EXCEPT ![i] = "delivering"]
  /\ UNCHANGED << starting, stopping, isRecording, renderPending, nextIsRecording,
                  stream, isStartingRef, isStoppingRef, stopPromiseRef,
                  mediaRecorderRef, startPc, stopPc, nRecStart, nRecStop,
                  nStopResolved, nStopFailed, handed, stopAfterStart, nRecData >>
  /\ UNCHANGED nonRcVars

\* onAudioData has taken the blob: the rest of onstop (lines 174-186) and the
\* finally of the RecorderSoT.stop that waits for it
OnAudioDataDone(i) ==
  /\ recorders[i] = "delivering"
  /\ recorders' = [recorders EXCEPT ![i] = "inactive"]
  /\ handed' = handed + 1
  /\ audioChunks' = 0
  /\ isStoppingRef' = FALSE
  /\ stopPromiseRef' = FALSE
  /\ stopping' = FALSE
  /\ stopPc' = "idle"
  /\ nStopResolved' = nStopResolved + 1
  /\ UNCHANGED << starting, isRecording, renderPending, nextIsRecording, stream,
                  isStartingRef, mediaRecorderRef, startPc, nRecStart, nRecStop,
                  nStopFailed, stopAfterStart, nRecData >>
  /\ UNCHANGED nonRcVars

\* the recorder and the hook after initializeAudio, nothing recording
RecInit ==
  /\ starting = FALSE
  /\ stopping = FALSE
  /\ isRecording = FALSE
  /\ renderPending = FALSE
  /\ nextIsRecording = FALSE
  /\ stream = TRUE
  /\ isStartingRef = FALSE
  /\ isStoppingRef = FALSE
  /\ stopPromiseRef = FALSE
  /\ mediaRecorderRef = 0
  /\ recorders = << >>
  /\ audioChunks = 0
  /\ startPc = "idle"
  /\ stopPc = "idle"
  /\ nRecStart = 0
  /\ nRecStop = 0
  /\ nStopResolved = 0
  /\ nStopFailed = 0
  /\ handed = 0
  /\ stopAfterStart = FALSE
  /\ nRecData = 0

(***************************************************************************)
(* The conversation flow (useConversationFlow).  Times are in              *)
(* milliseconds.  The state and the context are read as last set; a        *)
(* message is what the phrase tests of analyzeAIResponse and               *)
(* analyzeUserResponse find in it.                                         *)
(***************************************************************************)
\* the delay between entering ending and ended, ms
GraceMs == 3000
\* the silence that ends the call while end confirmation is awaited, ms
AwaitEndSilenceMs == 8000
\* the delay between the greeting and listening, ms
GreetingMs == 2000

\* what analyzeAIResponse can find in a reply: any combination of the three
\* kinds of phrase
AiAnalyses ==
  [isAskingForMoreQuestions : BOOLEAN, isCheckingConnection : BOOLEAN,
   isEndingConversation : BOOLEAN]

\* no silence timer is set
NoTimer == [due |-> Null, kind |-> "none"]

\* changeState("ending") followed by setTimeout(..., 3000): the timer that
\* will end the call with the given reason
Ending(reason) ==
  /\ state' = "ending"
  /\ graceTimers' = Append(graceTimers, [due |-> clock + GraceMs, reason |-> reason])

\* a test that never ends the call
EndNeverConfirmed(negative) == FALSE

\* clearing the silence timer alone
ClearSilenceTimeoutOnly ==
  silenceTimeout' = NoTimer /\ UNCHANGED connectionCheckTimeout

\* clearAllTimeouts (lines 285-295)
ClearAllTimeouts ==
  silenceTimeout' = NoTimer /\ connectionCheckTimeout' = Null

\* the test of processUserMessage that ends the call (line 310)
EndConfirmed(negative) == isAwaitingEndConfirmation /\ negative

FlowOptionsUnchanged == UNCHANGED << silenceTimeoutDuration, maxSilenceBeforeEnd >>

FlowHistoryUnchanged ==
  UNCHANGED << nUserMsg, nAiMsg, nListen, nHangup, nConvStart >>

\* startConversation (lines 384-396): the greeting, and the timer that
\* changes the state to listening
StartConversation ==
  /\ nConvStart < MaxConvStarts
  /\ nConvStart' = nConvStart + 1
  /\ state' = "greeting"
  /\ greetingTimer' = clock + GreetingMs
  /\ UNCHANGED << isAwaitingEndConfirmation, connectionCheckCount, hasUserResponded,
                  silenceTimeout, connectionCheckTimeout, graceTimers, callEnds, clock, nUserMsg, nAiMsg, nListen, nHangup >>
  /\ FlowOptionsUnchanged
  /\ UNCHANGED nonCfVars

\* the callback of the greeting timer
GreetingFire ==
  /\ greetingTimer # Null
  /\ greetingTimer <= clock
  /\ greetingTimer' = Null
  /\ state' = "listening"
  /\ UNCHANGED << isAwaitingEndConfirmation, connectionCheckCount, hasUserResponded,
                  silenceTimeout, connectionCheckTimeout, graceTimers, callEnds, clock >>
  /\ FlowHistoryUnchanged
  /\ FlowOptionsUnchanged
  /\ UNCHANGED nonCfVars

\* startListening (lines 398-403): changeState("listening"), clearAllTimeouts,
\* startSilenceTimeout (lines 224-283)
StartListening ==
  /\ nListen < MaxListens
  /\ nListen' = nListen + 1
  /\ state' = "listening"
  /\ connectionCheckTimeout' = Null
  /\ silenceTimeout' =
       IF isAwaitingEndConfirmation
         THEN [due |-> clock + AwaitEndSilenceMs, kind |-> "end"]
         ELSE [due |-> clock + silenceTimeoutDuration, kind |-> "check"]
  /\ UNCHANGED << isAwaitingEndConfirmation, connectionCheckCount, hasUserResponded,
                  graceTimers, callEnds, clock, nUserMsg, nAiMsg, nHangup,
                  nConvStart, greetingTimer >>
  /\ FlowOptionsUnchanged
  /\ UNCHANGED nonCfVars

\* the callback of the silence timer: the closing message and ending when end
\* confirmation is awaited (lines 234-244), else the connection check and
\* its timer (lines 249-274)
SilenceTimeoutFire ==
  /\ silenceTimeout # NoTimer
  /\ silenceTimeout.due <= clock
  /\ silenceTimeout' = NoTimer
  /\ IF silenceTimeout.kind = "end"
       THEN /\ Ending("no-response-after-prompt")
            /\ UNCHANGED << connectionCheckCount, connectionCheckTimeout >>
       ELSE /\ connectionCheckCount' = connectionCheckCount + 1
            /\ state' = "checking-connection"
            /\ connectionCheckTimeout' = clock + maxSilenceBeforeEnd
            /\ UNCHANGED graceTimers
  /\ UNCHANGED << isAwaitingEndConfirmation, hasUserResponded, callEnds, clock,
                  greetingTimer >>
  /\ FlowHistoryUnchanged
  /\ FlowOptionsUnchanged
  /\ UNCHANGED nonCfVars

\* the callback of the connection-check timer (lines 260-273)
ConnectionCheckFire ==
  /\ connectionCheckTimeout # Null
  /\ connectionCheckTimeout <= clock
  /\ connectionCheckTimeout' = Null
  /\ Ending("no-response")
  /\ UNCHANGED << isAwaitingEndConfirmation, connectionCheckCount, hasUserResponded,
                  silenceTimeout, callEnds, clock, greetingTimer >>
  /\ FlowHistoryUnchanged
  /\ FlowOptionsUnchanged
  /\ UNCHANGED nonCfVars

\* processUserMessage (lines 297-342); negative tells whether the message
\* holds one of the negative phrases of analyzeUserResponse
ProcessUserMessage(negative) ==
  /\ nUserMsg < MaxUserMsgs
  /\ nUserMsg' = nUserMsg + 1
  /\ ClearAllTimeouts
  /\ hasUserResponded' = TRUE
  /\ IF EndConfirmed(negative)
       THEN /\ Ending("user-confirmed-end")
            /\ UNCHANGED connectionCheckCount
       ELSE /\ state' = "processing"
            /\ connectionCheckCount' = IF state = "checking-connection"
                                         THEN 0 ELSE connectionCheckCount
            /\ UNCHANGED graceTimers
  /\ UNCHANGED << isAwaitingEndConfirmation, callEnds, clock, nAiMsg, nListen, nHangup,
                  nConvStart, greetingTimer >>
  /\ FlowOptionsUnchanged
  /\ UNCHANGED nonCfVars

\* processAIResponse (lines 344-382) on a reply with the given analysis
ProcessAIResponse(analysis) ==
  /\ nAiMsg < MaxAiMsgs
  /\ nAiMsg' = nAiMsg + 1
  /\ IF analysis.isEndingConversation
       THEN /\ Ending("ai-ended")
            /\ UNCHANGED isAwaitingEndConfirmation
       ELSE /\ isAwaitingEndConfirmation' =
                 (isAwaitingEndConfirmation \/ analysis.isAskingForMoreQuestions)
            /\ state' = IF analysis.isAskingForMoreQuestions
                          THEN "waiting-for-response"
                          ELSE IF analysis.isCheckingConnection
                            THEN "checking-connection"
                            ELSE "waiting-for-response"
            /\ UNCHANGED graceTimers
  /\ UNCHANGED << connectionCheckCount, hasUserResponded, silenceTimeout,
                  connectionCheckTimeout, callEnds, clock, nUserMsg, nListen, nHangup,
                  nConvStart, greetingTimer >>
  /\ FlowOptionsUnchanged
  /\ UNCHANGED nonCfVars

\* the callback of the oldest grace timer: changeState("ended") and
\* onCallEnd(reason)
GraceFire ==
  /\ graceTimers # << >>
  /\ Head(graceTimers).due <= clock
  /\ graceTimers' = Tail(graceTimers)
  /\ state' = "ended"
  /\ callEnds' = Append(callEnds, Head(graceTimers).reason)
  /\ UNCHANGED << isAwaitingEndConfirmation, connectionCheckCount, hasUserResponded,
                  silenceTimeout, connectionCheckTimeout, clock, greetingTimer >>
  /\ FlowHistoryUnchanged
  /\ FlowOptionsUnchanged
  /\ UNCHANGED nonCfVars

\* endConversation (lines 409-422): the user hangs up
EndConversation ==
  /\ nHangup < MaxHangups
  /\ nHangup' = nHangup + 1
  /\ ClearAllTimeouts
  /\ state' = "ended"
  /\ isAwaitingEndConfirmation' = FALSE
  /\ connectionCheckCount' = 0
  /\ hasUserResponded' = FALSE
  /\ UNCHANGED << graceTimers, callEnds, clock, nUserMsg, nAiMsg, nListen,
                  nConvStart, greetingTimer >>
  /\ FlowOptionsUnchanged
  /\ UNCHANGED nonCfVars

\* stopListening (lines 405-408), and the page's clearAllTimeouts when the
\* start of speech is detected
StopListening ==
  /\ ClearAllTimeouts
  /\ UNCHANGED << state, isAwaitingEndConfirmation, connectionCheckCount,
                  hasUserResponded, graceTimers, greetingTimer, callEnds, clock >>
  /\ FlowHistoryUnchanged
  /\ FlowOptionsUnchanged
  /\ UNCHANGED nonCfVars

\* TRUE iff a timer of the flow is due and its callback has not run
FlowTimerDue ==
  \/ silenceTimeout # NoTimer /\ silenceTimeout.due <= clock
  \/ connectionCheckTimeout # Null /\ connectionCheckTimeout <= clock
  \/ graceTimers # << >> /\ Head(graceTimers).due <= clock
  \/ greetingTimer # Null /\ greetingTimer <= clock

\* TRUE iff a timer of the flow is set
FlowTimerSet ==
  \/ silenceTimeout # NoTimer
  \/ connectionCheckTimeout # Null
  \/ graceTimers # << >>
  \/ greetingTimer # Null

\* FlowTickMs pass: the timers that were due have run.  Time is followed to
\* MaxFlowMs, and beyond it while a timer is set.
FlowTick ==
  /\ ~FlowTimerDue
  /\ clock < MaxFlowMs \/ FlowTimerSet
  /\ clock' = clock + FlowTickMs
  /\ UNCHANGED << state, isAwaitingEndConfirmation, connectionCheckCount,
                  hasUserResponded, silenceTimeout, connectionCheckTimeout,
                  graceTimers, callEnds, greetingTimer >>
  /\ FlowHistoryUnchanged
  /\ FlowOptionsUnchanged
  /\ UNCHANGED nonCfVars

\* the flow as constructed (lines 105-122): idle, no timer set
FlowInit ==
  /\ silenceTimeoutDuration = 2000
  /\ maxSilenceBeforeEnd = 2000
  /\ state = "idle"
  /\ isAwaitingEndConfirmation = FALSE
  /\ connectionCheckCount = 0
  /\ hasUserResponded = FALSE
  /\ silenceTimeout = NoTimer
  /\ connectionCheckTimeout = Null
  /\ graceTimers = << >>
  /\ callEnds = << >>
  /\ clock = 0
  /\ nUserMsg = 0
  /\ nAiMsg = 0
  /\ nListen = 0
  /\ nHangup = 0
  /\ nConvStart = 0
  /\ greetingTimer = Null

(***************************************************************************)
(* Playback of a streamed reply in the browser: the socket's onmessage of  *)
(* StreamingClient hands each tts_chunk header with the binary frame that  *)
(* follows it to AudioQueue.enqueue; playLoop is cut at its two awaits.    *)
(***************************************************************************)
\* the sequence numbers of the chunks of one reply
Seqs == 0 .. MaxTts - 1

AqPlayedUnchanged == UNCHANGED << queue, playing, firstStarted, loopPc, loopItem, played >>

\* onmessage with a text frame {type: 'tts_chunk', seq} (part_007:56-57);
\* binaryFollows is FALSE for the header of a failed synthesis
TtsMetaArrives(seq, binaryFollows) ==
  /\ seq \in unsent
  /\ binaryDue = FALSE
  /\ unsent' = unsent \ {seq}
  /\ pendingTTSMeta' = seq
  /\ binaryDue' = binaryFollows
  /\ AqPlayedUnchanged
  /\ UNCHANGED nonAqVars

\* onmessage with a binary frame (part_007:61-65): onTTS, enqueue, and
\* playLoop up to its first await
TtsBinaryArrives ==
  /\ binaryDue
  /\ binaryDue' = FALSE
  /\ IF pendingTTSMeta = Null
       THEN UNCHANGED << pendingTTSMeta, queue, playing, firstStarted, loopPc, loopItem >>
       ELSE /\ pendingTTSMeta' = Null
            /\ IF playing
                 THEN /\ queue' = Append(queue, pendingTTSMeta)
                      /\ UNCHANGED << playing, firstStarted, loopPc, loopItem >>
                 ELSE /\ playing' = TRUE
                      /\ firstStarted' = TRUE
                      /\ loopItem' = Head(Append(queue, pendingTTSMeta))
                      /\ queue' = Tail(Append(queue, pendingTTSMeta))
                      /\ loopPc' = "decoding"
  /\ UNCHANGED << unsent, played >>
  /\ UNCHANGED nonAqVars

\* decodeAudioData resolves: playBuffer starts the source
Decoded ==
  /\ loopPc = "decoding"
  /\ loopPc' = "playing"
  /\ played' = Append(played, loopItem)
  /\ UNCHANGED << pendingTTSMeta, binaryDue, unsent, queue, playing, firstStarted, loopItem >>
  /\ UNCHANGED nonAqVars

\* decodeAudioData rejects: playLoop throws with playing left set
DecodeFails ==
  /\ loopPc = "decoding"
  /\ loopPc' = "failed"
  /\ UNCHANGED << pendingTTSMeta, binaryDue, unsent, queue, playing, firstStarted, loopItem,
                  played >>
  /\ UNCHANGED nonAqVars

\* onended of the source: the next turn of the loop, or its end
PlayEnded ==
  /\ loopPc = "playing"
  /\ IF queue # << >>
       THEN /\ loopItem' = Head(queue)
            /\ queue' = Tail(queue)
            /\ loopPc' = "decoding"
            /\ UNCHANGED << playing, firstStarted >>
       ELSE /\ playing' = FALSE
            /\ firstStarted' = FALSE
            /\ loopPc' = "idle"
            /\ loopItem' = Null
            /\ UNCHANGED queue
  /\ UNCHANGED << pendingTTSMeta, binaryDue, unsent, played >>
  /\ UNCHANGED nonAqVars

\* the client and its queue as constructed, before the frames of a reply
AqInit ==
  /\ pendingTTSMeta = Null
  /\ binaryDue = FALSE
  /\ unsent = Seqs
  /\ queue = << >>
  /\ playing = FALSE
  /\ firstStarted = FALSE
  /\ loopPc = "idle"
  /\ loopItem = Null
  /\ played = << >>

\* nothing runs in the browser
ClParked == VadParked /\ RecInit /\ FlowInit /\ AqInit

(***************************************************************************)
(* Specifications of the streaming gateway.                                *)
(***************************************************************************)
\* the session right after wss.on('connection'): the hello ack has been sent
InitSession ==
  /\ CONVERSATION_URL \in BOOLEAN
  /\ GEMINI_API_KEY \in BOOLEAN
  /\ wsState = "open"
  /\ chunks = << >>
  /\ forwarded = FALSE
  /\ silenceTimer = FALSE
  /\ sttPlanned = FALSE
  /\ sttActive = FALSE
  /\ sttLastInterim = ""
  /\ sttLastFinal = ""
  /\ llmStarted = FALSE
  /\ llmDone = FALSE
  /\ fwd = [pc |-> "idle", body |-> << >>]
  /\ replies = << >>
  /\ sent = << Frame("ack", -1, FALSE, 0) >>
  /\ nChunks = 0
  /\ nStt = 0
  /\ nEos = 0
  /\ sttWritten = FALSE
  /\ fwdCount = 0
  /\ nSilence = 0
  /\ bytes = 0
  /\ wsCloseCode = 0
  /\ wsCloseReason = ""
  /\ idle = 0
  /\ aliveSec = 0
  /\ idleDue = FALSE
  /\ pingDue = FALSE
  /\ peerAnswers = TRUE
  /\ unanswered = 0
  /\ nBad = 0

\* the defaults of the caps and timeouts (lines 21, 27, 28), and a client
\* whose messages are all of one small size
CnDefaults ==
  /\ MAX_BYTES = 16
  /\ IDLE_SEC = 45
  /\ MAX_CONN_SECS = 600
  /\ msgSizes = {1}

\* the whole session: every client message, timer, recognizer callback, the
\* batch forward and the reply pipeline with replies of MaxGwSentences
InitGw ==
  InitSession /\ CnDefaults /\ replyMax = MaxGwSentences /\ LvParked /\ UgParked
    /\ RtParked /\ ClParked

\* the shapes of a mappable conversation response the model tries
FwdShapes == { <<TRUE, "b64">>, <<TRUE, "url">>, <<FALSE, "none">> }

NextGw ==
  \/ \E size \in msgSizes : RecvHello(size)
  \/ \E binary \in BOOLEAN, size \in msgSizes : RecvAudio(binary, size)
  \/ SilenceFire
  \/ \E size \in msgSizes : RecvEos(size)
  \/ \E alt \in Transcripts, isFinal \in BOOLEAN : SttData(alt, isFinal)
  \/ WsClose
  \/ FwdGraceEnd
  \/ \E sh \in FwdShapes : FwdReplyOk(sh[1], sh[2])
  \/ FwdReplyError
  \/ \E i \in DOMAIN replies : ReplyFetchOk(i)
  \/ \E i \in DOMAIN replies : ReplyFetchNotOk(i)
  \/ \E i \in DOMAIN replies : ReplyThrow(i)
  \/ \E i \in DOMAIN replies, completes \in BOOLEAN : ReplyDelta(i, completes)
  \/ \E i \in DOMAIN replies : ReplyStreamEnd(i)
  \/ \E i \in DOMAIN replies : ReplyDrained(i)
  \/ \E i \in DOMAIN replies : \E s \in replies[i].pending : TtsOk(i, s)
  \/ \E i \in DOMAIN replies : \E s \in replies[i].pending : TtsFail(i, s)
  \/ \E i \in DOMAIN replies : GenOk(i)
  \/ \E i \in DOMAIN replies : GenNotOk(i)
  \/ \E i \in DOMAIN replies, ok \in BOOLEAN : FallbackTts(i, ok)

SpecGw == InitGw /\ [][NextGw]_vars

\* the reply pipeline on its own: a session with the LLM key configured whose
\* client sends hello and audio and stays connected, and whose reply has up
\* to MaxSentences sentences
InitReply ==
  InitSession /\ CnDefaults /\ GEMINI_API_KEY /\ CONVERSATION_URL
    /\ replyMax = MaxSentences /\ LvParked /\ UgParked /\ RtParked /\ ClParked

NextReply ==
  \/ \E size \in msgSizes : RecvHello(size)
  \/ \E binary \in BOOLEAN, size \in msgSizes : RecvAudio(binary, size)
  \/ \E alt \in Transcripts, isFinal \in BOOLEAN : SttData(alt, isFinal)
  \/ \E i \in DOMAIN replies : ReplyFetchOk(i)
  \/ \E i \in DOMAIN replies : ReplyFetchNotOk(i)
  \/ \E i \in DOMAIN replies : ReplyThrow(i)
  \/ \E i \in DOMAIN replies, completes \in BOOLEAN : ReplyDelta(i, completes)
  \/ \E i \in DOMAIN replies : ReplyStreamEnd(i)
  \/ \E i \in DOMAIN replies : ReplyFlushResume(i)
  \/ \E i \in DOMAIN replies : ReplyDrained(i)
  \/ \E i \in DOMAIN replies : \E s \in replies[i].pending : TtsOk(i, s)
  \/ \E i \in DOMAIN replies : \E s \in replies[i].pending : TtsFail(i, s)
  \/ \E i \in DOMAIN replies : GenOk(i)
  \/ \E i \in DOMAIN replies : GenNotOk(i)
  \/ \E i \in DOMAIN replies, ok \in BOOLEAN : FallbackTts(i, ok)

SpecReply == InitReply /\ [][NextReply]_vars

(***************************************************************************)
(* Specifications of the streaming session's connection housekeeping.      *)
(***************************************************************************)
\* no connection to the streaming gateway
GwAbsent ==
  /\ CONVERSATION_URL = FALSE
  /\ GEMINI_API_KEY = FALSE
  /\ wsState = "closed"
  /\ chunks = << >>
  /\ forwarded = FALSE
  /\ silenceTimer = FALSE
  /\ sttPlanned = FALSE
  /\ sttActive = FALSE
  /\ sttLastInterim = ""
  /\ sttLastFinal = ""
  /\ llmStarted = FALSE
  /\ llmDone = FALSE
  /\ fwd = [pc |-> "idle", body |-> << >>]
  /\ replies = << >>
  /\ sent = << >>
  /\ replyMax = 0
  /\ nChunks = 0 /\ nStt = 0 /\ nEos = 0 /\ fwdCount = 0 /\ nSilence = 0
  /\ sttWritten = FALSE
  /\ bytes = 0 /\ idle = 0 /\ aliveSec = 0 /\ unanswered = 0
  /\ wsCloseCode = 0
  /\ wsCloseReason = ""
  /\ idleDue = FALSE
  /\ pingDue = FALSE
  /\ peerAnswers = TRUE
  /\ nBad = 0

\* the byte caps of the streaming gateway: a client that sends messages of
\* 1 MiB and of 3 MiB to a session whose per-session cap is configured as
\* 3 MiB; the recognizer stays silent
InitCapsGw ==
  /\ InitSession
  /\ MAX_BYTES = 3
  /\ IDLE_SEC = 45
  /\ MAX_CONN_SECS = 600
  /\ msgSizes = {1, 3}
  /\ replyMax = 0
  /\ RtParked

\* one connection, to the streaming gateway or to the conversation route
InitCaps ==
  /\ InitCapsGw \/ (GwAbsent /\ CnDefaults /\ RtInit)
  /\ LvParked
  /\ UgParked
  /\ ClParked

\* the sizes of the binary messages the route's client sends, in MiB
RtSizes == {1, 2}

NextRoute ==
  \/ RtStart
  \/ RtStartResume
  \/ RtEnd
  \/ \E size \in RtSizes : RtBinary(size)
  \/ RtText
  \/ \E alt \in Transcripts : RtInterim(alt)
  \/ RtFinal
  \/ RtSttError
  \/ RtIdleFire
  \/ RtOnClose

NextCaps ==
  \/ NextRoute
  \/ \E size \in msgSizes : RecvHello(size)
  \/ \E binary \in BOOLEAN, size \in msgSizes : RecvAudio(binary, size)
  \/ \E size \in msgSizes : RecvEos(size)
  \/ \E size \in msgSizes : RecvPing(size)
  \/ \E size \in msgSizes : RecvBye(size)
  \/ \E size \in msgSizes : RecvMalformed(size)
  \/ \E size \in msgSizes : RecvRejected(size)
  \/ SilenceFire
  \/ WsClose
  \/ FwdGraceEnd
  \/ \E sh \in FwdShapes : FwdReplyOk(sh[1], sh[2])
  \/ FwdReplyError

SpecCaps == InitCaps /\ [][NextCaps]_vars

\* no connection to the Live gateway
LvAbsent ==
  /\ LIVE_API_WS_URL = FALSE
  /\ GOOGLE_API_KEY = FALSE
  /\ lvWs = "closed"
  /\ lvCloseCode = 0
  /\ lvCloseReason = ""
  /\ bridge = 0
  /\ appKeepalive = FALSE
  /\ sentReady = FALSE
  /\ acked = FALSE
  /\ upstreamReady = FALSE
  /\ readyTimer = 0
  /\ starts = << >>
  /\ lvSent = << >>
  /\ nAudio = 0 /\ upAudio = 0 /\ lvIdle = 0 /\ lvAge = 0 /\ lvBad = 0
  /\ lvUnanswered = 0
  /\ isAlive = TRUE
  /\ lvPinged = FALSE
  /\ lvPeerAnswers = TRUE
  /\ HbDefaults

\* the idle timeout and the maximum connection age the streaming gateway is
\* configured with, in seconds
Timeouts == { << 2, 4 >>, << 11, 12 >> }

\* the timers of the streaming gateway: a session without conversation
\* endpoint and LLM key whose client sends small messages (well under 1 MiB):
\* audio, bye and malformed ones
InitKeepGw ==
  /\ InitSession
  /\ CONVERSATION_URL = FALSE
  /\ GEMINI_API_KEY = FALSE
  /\ MAX_BYTES = 16
  /\ \E t \in Timeouts : IDLE_SEC = t[1] /\ MAX_CONN_SECS = t[2]
  /\ msgSizes = {0}
  /\ replyMax = 0
  /\ LvAbsent

\* the heartbeat of the Live gateway: a session in echo mode; the
\* environment asks for an idle timeout of 20 s or 120 s and for a maximum
\* connection age of 30 s
InitKeepLive ==
  /\ LvInit
  /\ LIVE_API_WS_URL = FALSE
  /\ GOOGLE_API_KEY = FALSE
  /\ WS_IDLE_TIMEOUT_SEC \in {20, 120}
  /\ GwAbsent
  /\ MAX_BYTES = 16
  /\ IDLE_SEC = 20
  /\ MAX_CONN_SECS = 30
  /\ msgSizes = {0}

\* one connection, to the streaming gateway or to the Live gateway
InitKeep ==
  /\ InitKeepGw \/ InitKeepLive
  /\ UgParked
  /\ RtParked
  /\ ClParked

NextKeepGw ==
  \/ \E binary \in BOOLEAN, size \in msgSizes : RecvAudio(binary, size)
  \/ \E size \in msgSizes : RecvBye(size)
  \/ \E size \in msgSizes : RecvMalformed(size)
  \/ SilenceFire
  \/ WsClose
  \/ FwdGraceEnd
  \/ Tick
  \/ IdleTimerFire
  \/ PingFire
  \/ PeerStops

NextKeepLive ==
  \/ LvStart
  \/ \E wellFormed \in BOOLEAN : LvClientAudio(wellFormed)
  \/ LvBadJson
  \/ LvEndCall
  \/ LvWsClose
  \/ LvHeartbeat
  \/ LvPong
  \/ LvPeerStops

NextKeep == NextKeepGw \/ NextKeepLive

SpecKeep == InitKeep /\ [][NextKeep]_vars

(***************************************************************************)
(* Specification of the Live gateway.                                      *)
(***************************************************************************)
\* a streaming session that is not in use
GwParked ==
  InitSession /\ CnDefaults /\ ~CONVERSATION_URL /\ ~GEMINI_API_KEY /\ replyMax = 0

InitLive == LvInit /\ HbDefaults /\ GwParked /\ UgParked /\ RtParked /\ ClParked

NextLive ==
  \/ LvStart
  \/ \E k \in DOMAIN starts : LvTokenOk(k)
  \/ \E k \in DOMAIN starts : LvTokenFail(k)
  \/ \E k \in DOMAIN starts : UpOpen(k)
  \/ \E k \in DOMAIN starts : UpUnexpected(k)
  \/ \E k \in DOMAIN starts : UpError(k)
  \/ \E k \in DOMAIN starts, code \in UpCloseCodes : UpClose(k, code)
  \/ \E k \in DOMAIN starts : ReadyTimeout(k)
  \/ \E wellFormed \in BOOLEAN : LvClientAudio(wellFormed)
  \/ LvEndCall
  \/ LvWsClose

SpecLive == InitLive /\ [][NextLive]_vars

\* a timer that was set and not cleared fires: setTimeout callbacks run.
\* Nothing makes the upstream answer or the token request return.
LiveFairness == \A k \in 1..MaxStarts : WF_vars(k \in DOMAIN starts /\ ReadyTimeout(k))

SpecLiveFair == InitLive /\ [][NextLive]_vars /\ LiveFairness

(***************************************************************************)
(* Specification of the upgrade gates.                                     *)
(***************************************************************************)
InitUpgrade == UgInit /\ GwParked /\ LvParked /\ RtParked /\ ClParked

NextUpgrade == \E req \in Requests : UpgradeRequest(req)

SpecUpgrade == InitUpgrade /\ [][NextUpgrade]_vars

(***************************************************************************)
(* Specification of the voice activity detection: one of the two hooks is  *)
(* mounted, started and fed one frame every TickMs.                        *)
(***************************************************************************)
\* the server side at rest
SrvParked == GwParked /\ LvParked /\ UgParked /\ RtParked

InitVad == hook \in {"current", "legacy"} /\ VadMounted /\ RecInit /\ FlowInit /\ AqInit /\ SrvParked

NextVadCurrent ==
  \/ VadStart
  \/ \E level \in Levels : VadFrame(level)
  \/ VadMaxTimerFire
  \/ \E reason \in {"manual", "unmount"}, convState \in {"listening", "idle"},
        isUnmounting \in BOOLEAN : VadStop(reason, convState, isUnmounting)

NextVadLegacy ==
  \/ \E level \in Levels : LgStart(level)
  \/ \E level \in Levels : LgFrame(level)
  \/ LgSilenceTimerFire
  \/ LgMaxTimerFire
  \/ LgStop

NextVad == NextVadCurrent \/ NextVadLegacy \/ VadTick

SpecVad == InitVad /\ [][NextVad]_vars

(***************************************************************************)
(* Specification of the recorder: start and stop calls from any caller at  *)
(* any time, the renders and the media recorders' events in between.       *)
(***************************************************************************)
InitRec == RecInit /\ VadParked /\ FlowInit /\ AqInit /\ SrvParked

NextRec ==
  \/ \E suspended \in BOOLEAN : RecStart(suspended)
  \/ RecResumed
  \/ ReactRender
  \/ RecStop
  \/ \E i \in DOMAIN recorders : MrData(i)
  \/ \E i \in DOMAIN recorders : MrStopEvents(i)
  \/ \E i \in DOMAIN recorders : OnAudioDataDone(i)

SpecRec == InitRec /\ [][NextRec]_vars

(***************************************************************************)
(* Specification of the conversation flow: the page's calls in any order   *)
(* at any time, and the timers' callbacks when they are due.               *)
(***************************************************************************)
InitFlow == FlowInit /\ VadParked /\ RecInit /\ AqInit /\ SrvParked

NextFlow ==
  \/ StartConversation
  \/ GreetingFire
  \/ StartListening
  \/ SilenceTimeoutFire
  \/ ConnectionCheckFire
  \/ \E negative \in BOOLEAN : ProcessUserMessage(negative)
  \/ \E analysis \in AiAnalyses : ProcessAIResponse(analysis)
  \/ GraceFire
  \/ EndConversation
  \/ StopListening
  \/ FlowTick

SpecFlow == InitFlow /\ [][NextFlow]_vars

(***************************************************************************)
(* Specification of the playback: the headers of a reply arrive in any     *)
(* order, each followed by its binary frame unless its synthesis failed.   *)
(***************************************************************************)
InitPlay == AqInit /\ VadParked /\ RecInit /\ FlowInit /\ SrvParked

NextPlay ==
  \/ \E seq \in Seqs, binaryFollows \in BOOLEAN : TtsMetaArrives(seq, binaryFollows)
  \/ TtsBinaryArrives
  \/ Decoded
  \/ DecodeFails
  \/ PlayEnded

SpecPlay == InitPlay /\ [][NextPlay]_vars

(***************************************************************************)
(* Observations on the frame log and the invocations.                      *)
(***************************************************************************)
\* forward/finalize actions started so far: batch forwards and reply cycles
Finalizations == fwdCount + Len(replies)

\* every started forward and reply cycle has run to its end
AllTasksDone ==
  /\ fwd.pc \in {"idle", "done"}
  /\ \A i \in DOMAIN replies : replies[i].pc = "done" /\ replies[i].pending = {}

\* the positions of the log holding an ai_done frame
AiDonePositions == { p \in DOMAIN sent : sent[p].t = "ai_done" }

\* the reply frames of invocation i that the client observes, in order
ReplyFrames(i) ==
  SelectSeq(sent, LAMBDA f : f.by = i /\ f.t \in {"ai_sentence", "tts_chunk", "binary", "ai_done"})

\* the frame at position p (from 1) of a reply observed in generation order:
\* ai_sentence(k), tts_chunk(k), binary(k) for k = 0, 1, ..., closed by ai_done
InGenerationOrder(fs) ==
  \A p \in DOMAIN fs :
    LET k == (p - 1) \div 3
        j == (p - 1) % 3
    IN  IF fs[p].t = "ai_done"
          THEN j = 0 /\ p = Len(fs)
          ELSE /\ fs[p].seq = k
               /\ fs[p].t = (CASE j = 0 -> "ai_sentence" [] j = 1 -> "tts_chunk" [] OTHER -> "binary")

(***************************************************************************)
(* C1.  For a turn that received audio, when the silence timer fires and   *)
(* an eos arrives (in either order), exactly one forward/finalize action   *)
(* occurs for the turn, not two.  Stated on the open session: the timer    *)
(* has fired on the buffered audio and an eos has been handled, and the    *)
(* actions counted are the batch forwards and the reply cycles that the    *)
(* timer or the eos started.                                               *)
(***************************************************************************)
C1_OneFinalizePerTurn ==
  (wsState # "closed" /\ nSilence > 0 /\ nEos > 0)
    => fwdCount + Cardinality({ i \in DOMAIN replies :
                                  replies[i].trig \in {"silence", "eos"} }) = 1

(***************************************************************************)
(* C2.  Whatever the interleaving of final transcript, early-trigger       *)
(* interim, silence timer, eos and close, at most one downstream reply     *)
(* cycle is started: the streaming reply and the batch forward never both  *)
(* run, and neither runs twice.                                            *)
(***************************************************************************)
C2_OneReplyCycle ==
  /\ fwdCount <= 1
  /\ Len(replies) <= 1
  /\ ~(fwdCount >= 1 /\ Len(replies) >= 1)

(***************************************************************************)
(* C3.  The client observes the frames of a reply in generation order:     *)
(* ai_sentence(S1), the tts_chunk header and binary of S1, the same for    *)
(* S2, ..., then ai_done (synthesis succeeding for every sentence).        *)
(***************************************************************************)
C3_FramesInGenerationOrder ==
  \A i \in DOMAIN replies :
    (\A p \in DOMAIN sent : sent[p].by = i => ~sent[p].err)
      => InGenerationOrder(ReplyFrames(i))

C5_DoneOnceAndLast ==
  \A i \in DOMAIN replies :
    /\ \A p, q \in DOMAIN sent :
         (p < q /\ sent[p].by = i /\ sent[p].t = "ai_done") => sent[q].by # i
    /\ (wsState = "open" /\ replies[i].pc = "done")
         => Cardinality({ p \in AiDonePositions : sent[p].by = i }) = 1

(***************************************************************************)
(* C6.  Every finalized turn results in the client receiving exactly one   *)
(* ai_done, whichever path produced the reply.  Stated at the end of the   *)
(* turn: every forward and reply cycle that was started has returned and   *)
(* the client is still connected, on a gateway with both the conversation  *)
(* endpoint and the LLM key configured.                                    *)
(***************************************************************************)
C6_ExactlyOneAiDone ==
  (CONVERSATION_URL /\ GEMINI_API_KEY /\ wsState = "open" /\ nChunks > 0
     /\ Finalizations > 0 /\ AllTasksDone)
    => Cardinality(AiDonePositions) = 1

AckPositions(k) == { p \in DOMAIN lvSent : lvSent[p].t = "ack" /\ lvSent[p].k = k }

\* positions of all acks of the session
AllAckPositions == { p \in DOMAIN lvSent : lvSent[p].t = "ack" }

\* positions of the acks sent by an upstream event or a readiness timer
BridgedAckPositions ==
  { p \in AllAckPositions : starts[lvSent[p].k].stage = "bridged" }

\* start k's connect attempt is settled: it took the echo branch, its
\* connect call threw, or its readiness timer fired or was cleared
Resolved(k) ==
  \/ starts[k].stage \in {"echo", "threw"}
  \/ starts[k].stage = "bridged" /\ starts[k].timer \in {"fired", "cleared"}

\* start k's connect attempt failed: the connect call threw, the handshake
\* was answered with a non-101 response, the socket failed or closed, or
\* the readiness timer fired
Failed(k) ==
  \/ starts[k].stage = "threw"
  \/ starts[k].up \in {"rejected", "errored", "closed"}
  \/ starts[k].timer = "fired"

\* lvSent[p], lvSent[p+1] are the connect-failure notice of start k
FailurePairAt(log, p, k) ==
  /\ p \in DOMAIN log /\ p + 1 \in DOMAIN log
  /\ log[p] = LvFrame("error", "live_connect_failed", k)
  /\ log[p + 1] = LvFrame("ack", "echo", k)

\* positions of the echo acks that followed a failed upstream connect
FallbackAckPositions ==
  { p \in DOMAIN lvSent :
      /\ lvSent[p].t = "ack" /\ lvSent[p].v = "echo"
      /\ starts[lvSent[p].k].stage = "bridged" }

C9_EchoSessionStaysOpen ==
  \A p \in FallbackAckPositions :
    /\ lvCloseReason # "upstream_closed"
    /\ \A q \in DOMAIN lvSent :
         (q > p /\ lvSent[q].t = "ack") => lvSent[q].v # "live"
    /\ upAudio = 0

(***************************************************************************)
(* C10.  Every upstream connect failure that happens before the session's  *)
(* first ack, while the client is connected, sends exactly the error       *)
(* live_connect_failed and then the ack echo, after at most the passed-    *)
(* through upstream_error.  Every live_connect_failed error is at once     *)
(* followed by its ack echo, every fallback ack echo comes right after its *)
(* error, and no start gets the pair twice.                                *)
(***************************************************************************)
C10_FailureYieldsErrorThenEchoAck ==
  /\ [] /\ \A p \in DOMAIN lvSent :
             (lvSent[p].t = "error" /\ lvSent[p].v = "live_connect_failed")
               => FailurePairAt(lvSent, p, lvSent[p].k)
        /\ \A p \in DOMAIN lvSent :
             (lvSent[p].t = "ack" /\ lvSent[p].v = "echo"
                /\ starts[lvSent[p].k].stage # "echo")
               => FailurePairAt(lvSent, p - 1, lvSent[p].k)
        /\ \A k \in DOMAIN starts :
             Cardinality({ p \in DOMAIN lvSent :
                             lvSent[p] = LvFrame("error", "live_connect_failed", k) }) <= 1
  /\ [][ (lvWs = "open" /\ ~acked
            /\ \E k \in DOMAIN starts : ~Failed(k) /\ Failed(k)')
           => \E k \in DOMAIN starts :
                /\ ~Failed(k) /\ Failed(k)'
                /\ \/ lvSent' = lvSent \o EchoFallbackFrames(k)
                   \/ lvSent' = lvSent \o << LvFrame("error", "upstream_error", k) >>
                                       \o EchoFallbackFrames(k) ]_vars

\* C10 witness: an upstream socket failed before any ack, and the client,
\* still connected, holds upstream_error, live_connect_failed and ack echo
C10_Witness ==
  /\ lvWs = "open"
  /\ \E k \in DOMAIN starts, p \in DOMAIN lvSent :
       /\ starts[k].up = "closed" /\ starts[k].timer = "cleared"
       /\ lvSent[p] = LvFrame("error", "upstream_error", k)
       /\ FailurePairAt(lvSent, p + 1, k)

(***************************************************************************)
(* C11.  After a start on a session with an upstream URL configured, the   *)
(* client that stays connected eventually receives an ack (live or echo),  *)
(* whatever the upstream and the token request do: the readiness timer     *)
(* bounds the wait.                                                        *)
(***************************************************************************)
C11_StartEventuallyAcked ==
  (LIVE_API_WS_URL /\ starts # << >>) ~> (AllAckPositions # {} \/ lvWs # "open")

\* start k was acknowledged as live
LiveAcked(k) == \E p \in DOMAIN lvSent : lvSent[p] = LvFrame("ack", "live", k)

(***************************************************************************)
(* C12.  Once a start was acknowledged as live, an upstream error or close *)
(* of its socket closes the client connection, whatever the upstream's     *)
(* close code: the client is not left open on a dead upstream.             *)
(***************************************************************************)
C12_UpstreamCloseClosesClient ==
  \A k \in DOMAIN starts :
    (LiveAcked(k) /\ starts[k].up \in {"errored", "closed"})
      => lvWs # "open"

(***************************************************************************)
(* Observations of the upgrade gates.                                      *)
(***************************************************************************)
\* the request carries the correct token: in the token header, which every
\* gateway reads, and nowhere a different one
CarriesGoodToken(req) ==
  req.header = "good" /\ req.ssp \in {"none", "good"} /\ req.query \in {"none", "good"}

\* the request carries a wrong token wherever it carries one
CarriesBadToken(req) ==
  req.header = "bad" /\ req.ssp \in {"none", "bad"} /\ req.query \in {"none", "bad"}

\* an origin allow-list and a required, non-empty token are configured
GatesConfigured == ALLOWED_ORIGINS /\ REQUIRE_WS_TOKEN /\ WS_TOKEN

(***************************************************************************)
(* C13.  With an origin allow-list and a required token configured, a      *)
(* request with the right path, a listed Origin and the correct token is   *)
(* accepted, and one that differs in exactly one of them is refused before *)
(* the handshake: 404 for the path, 403 for the origin, 401 for the token. *)
(***************************************************************************)
C13_GateStatusPerField ==
  (GatesConfigured /\ ugStatus # 0) =>
    /\ (ugReq.path = "exact" /\ ugReq.origin = "listed" /\ CarriesGoodToken(ugReq))
         => ugStatus = 101
    /\ (ugReq.path # "exact" /\ ugReq.origin = "listed" /\ CarriesGoodToken(ugReq))
         => ugStatus = 404 /\ ugConns = 0
    /\ (ugReq.path = "exact" /\ ugReq.origin = "unlisted" /\ CarriesGoodToken(ugReq))
         => ugStatus = 403 /\ ugConns = 0
    /\ (ugReq.path = "exact" /\ ugReq.origin = "listed" /\ CarriesBadToken(ugReq))
         => ugStatus = 401 /\ ugConns = 0

(***************************************************************************)
(* C14.  With an origin allow-list configured, an otherwise acceptable      *)
(* upgrade request without an Origin header, while a missing origin is not *)
(* explicitly allowed, is refused with 403 and no connection handler runs  *)
(* for it (no session, no timers).                                         *)
(***************************************************************************)
C14_NoOriginRefused ==
  (ugStatus # 0 /\ ALLOWED_ORIGINS /\ ugReq.origin = "none" /\ ~ALLOW_NO_ORIGIN
     /\ ugReq.path = "exact" /\ CarriesGoodToken(ugReq))
    => ugStatus = 403 /\ ugConns = 0

(***************************************************************************)
(* C15.  If the connection closes while the turn's buffer is non-empty and *)
(* was not forwarded, the turn is finalized once: when the close handler   *)
(* has run the turn has exactly one forward or reply cycle (its own, or    *)
(* the one started before), and no further one is started after the        *)
(* close.  Stated on a gateway with the conversation endpoint and the LLM  *)
(* key configured.                                                         *)
(***************************************************************************)
C15_CloseFinalizesOnce ==
  [][ (CONVERSATION_URL /\ GEMINI_API_KEY /\ wsState' = "closed"
         /\ ~forwarded /\ chunks # << >>)
        => IF wsState # "closed"
             THEN Finalizations' = 1
             ELSE Finalizations' = Finalizations ]_vars

C17_OverCapClosesAndDrops ==
  /\ [][ (bytes' # bytes /\ (bytes' - bytes > MAX_MSG_BYTES \/ bytes' > MAX_BYTES))
          => /\ wsState = "open"
                  => /\ wsState' = "closing"
                     /\ wsCloseCode' = 1009
                     /\ wsCloseReason' = IF bytes' - bytes > MAX_MSG_BYTES
                                            THEN "too_large"
                                            ELSE "session_too_large"
             /\ UNCHANGED << chunks, nChunks, nEos, forwarded, silenceTimer,
                             sttPlanned, sttActive, sttWritten, llmStarted, fwd,
                             fwdCount, replies, sent >> ]_vars
  /\ [][ (preStartBytes' # preStartBytes /\ preStartBytes' > MAX_PRESTART_BYTES)
          => /\ rtWs = "open"
                  => /\ rtWs' = "closing"
                     /\ rtCloseCode' = 1009
                     /\ rtCloseReason' = "too_much_unstarted_data"
             /\ UNCHANGED << rtWritten, rtReplies, rtSent, stt, startedLLM,
                             lastInterim >> ]_vars

\* C17 witness: two audio messages were buffered, a third message took the
\* session over its cap, and the gateway is closing the socket with 1009
C17_Witness ==
  /\ Len(chunks) = 2
  /\ bytes > MAX_BYTES
  /\ wsState = "closing"
  /\ wsCloseCode = 1009
  /\ wsCloseReason = "session_too_large"

(***************************************************************************)
(* C18.  When the gateway's periodic check runs on an open connection that *)
(* has had no inbound message for the idle timeout, the socket is closed   *)
(* with 1001; when it runs on one that is not idle but has reached the     *)
(* maximum connection age, the socket is closed with 1000, whatever        *)
(* traffic arrives.  For the streaming gateway the check is the idle       *)
(* interval's callback, and between checks no open connection is beyond    *)
(* either limit; for the Live gateway it is the heartbeat's callback on a  *)
(* connection that answered the last ping.                                 *)
(***************************************************************************)
C18_IdleAndAgeClose ==
  /\ [][ (idleDue /\ ~idleDue' /\ wsState = "open")
          => /\ idle >= IDLE_SEC
                  => (wsState' = "closing" /\ wsCloseCode' = 1001)
             /\ (idle < IDLE_SEC /\ aliveSec >= MAX_CONN_SECS)
                  => (wsState' = "closing" /\ wsCloseCode' = 1000) ]_vars
  /\ []((wsState = "open" /\ ~idleDue)
          => (idle < IDLE_SEC /\ aliveSec < MAX_CONN_SECS))
  /\ [][ (lvAge' # lvAge /\ lvWs = "open" /\ isAlive)
          => /\ lvIdle' > WS_IDLE_TIMEOUT_SEC
                  => (lvWs' = "closing" /\ lvCloseCode' = 1001)
             /\ (lvIdle' <= WS_IDLE_TIMEOUT_SEC /\ lvAge' >= MAX_CONN_SECS)
                  => (lvWs' = "closing" /\ lvCloseCode' = 1000) ]_vars

(***************************************************************************)
(* C19.  A connection whose peer has left two of the gateway's pings in a  *)
(* row unanswered is no longer open: the gateway has terminated it (or     *)
(* closed it) by then, whether or not the idle timeout has elapsed.        *)
(***************************************************************************)
C19_UnansweredPingsTerminate ==
  /\ unanswered >= 2 => wsState # "open"
  /\ lvUnanswered >= 2 => lvWs # "open"

(***************************************************************************)
(* C20.  A malformed JSON message, or an audio message whose format        *)
(* declaration is bad, makes the gateway send an error event to the client *)
(* (the last frame sent, when the socket is open) and leaves the socket in *)
(* the state it was in; audio that arrives after it is still taken.        *)
(***************************************************************************)
C20_MalformedGetsErrorAndContinues ==
  /\ [][ nBad' = nBad + 1
          => /\ wsState' = wsState
             /\ wsState = "open" => /\ Len(sent') = Len(sent) + 1
                                     /\ sent'[Len(sent')].t = "error" ]_vars
  /\ [][ lvBad' = lvBad + 1
          => /\ lvWs' = lvWs
             /\ lvWs = "open" => /\ Len(lvSent') = Len(lvSent) + 1
                                  /\ lvSent'[Len(lvSent')].t = "error" ]_vars
  /\ [][ (nBad >= 1 /\ nChunks' = nChunks + 1) => Len(chunks') = Len(chunks) + 1 ]_vars

(***************************************************************************)
(* Observations on the voice activity detection.                           *)
(***************************************************************************)
\* the time the mounted hook's speech segment started at
SegmentStart == IF hook = "current" THEN speechStartTime ELSE lgSpeechStartTime

\* TRUE iff the mounted hook is in the speaking state
Speaking == IF hook = "current" THEN isSpeaking ELSE lgIsSpeaking

(***************************************************************************)
(* C21.  onSpeechEnd never fires for a speech segment shorter than         *)
(* minSpeechDuration: when it fires, the time from the segment's start to  *)
(* the first frame of the silence that ends it (to now, if the energy is   *)
(* above the threshold) is at least minSpeechDuration; a short blip        *)
(* followed by silence leaves the VAD speaking, with no onSpeechEnd.       *)
(***************************************************************************)
C21_NoEndForShortSegment ==
  [][ nSpeechEnd' = nSpeechEnd + 1
      => (IF quietSince' = Null THEN now ELSE quietSince') - SegmentStart
           >= minSpeechDuration ]_vars

\* the configured silence window of the mounted hook
SilenceWindow ==
  IF hook = "current" THEN Max(silenceThreshold, minSilenceDuration) ELSE silenceThreshold

(***************************************************************************)
(* C22.  onSpeechEnd fires only when the energy has stayed below the       *)
(* threshold, frame after frame, for at least the silence window: the last *)
(* frame is below the threshold and the run of frames below it that it     *)
(* ends began at least a silence window ago.                               *)
(***************************************************************************)
C22_EndOnlyAfterContinuousSilence ==
  [][ nSpeechEnd' = nSpeechEnd + 1
      => /\ quietSince' # Null
         /\ now - quietSince' >= SilenceWindow ]_vars

(***************************************************************************)
(* C23.  The zero-input (dead microphone) signal is emitted at most once   *)
(* per VAD session: onZeroInputDetected has been called at most once more  *)
(* than the VAD has been stopped, however long the input stays at zero.    *)
(***************************************************************************)
C23_ZeroInputOncePerSession == nZeroInput <= nVadStop + 1

(***************************************************************************)
(* C24.  Each onSpeechStart arms a max-duration timer for its segment, due *)
(* maxSpeechDuration later; onMaxDurationReached fires at most once per    *)
(* segment, and only while the VAD runs and has been speaking without a    *)
(* break for maxSpeechDuration since the segment's start.                  *)
(***************************************************************************)
C24_MaxDurationOncePerSegment ==
  /\ [][ nSpeechStart' = nSpeechStart + 1
         => (IF hook = "current" THEN maxTimerDue' ELSE lgMaxTimerDue')
              = now + maxSpeechDuration ]_vars
  /\ [][ nMaxReached' = nMaxReached + 1
         => /\ Speaking
            /\ IF hook = "current" THEN isVADRunning ELSE lgAnalyser
            /\ now - SegmentStart >= maxSpeechDuration ]_vars
  /\ [](segMaxReached <= 1)

\* a segment has reached its maximum duration, after an earlier segment ended
C24_Witness ==
  /\ nMaxReached = 1
  /\ segMaxReached = 1
  /\ nSpeechEnd = 1
  /\ nSpeechStart = 2
  /\ Speaking

(***************************************************************************)
(* Observations on the recorder.                                           *)
(***************************************************************************)
\* the media recorders that capture: started and not told to stop
Capturing == { i \in DOMAIN recorders : recorders[i] = "recording" }

\* the media recorders whose stop has not settled: told to stop, the last
\* data or the hand-over of the payload still to come
Settling == { i \in DOMAIN recorders : recorders[i] \in {"stopRequested", "delivering"} }

(***************************************************************************)
(* C25.  Whatever the interleaving of RecorderSoT.start calls, the capture *)
(* device is started at most once while the recorder is starting or        *)
(* active: no media recorder is started while another one is capturing, so *)
(* at most one captures at any time.                                       *)
(***************************************************************************)
C25_OneCaptureStart == Cardinality(Capturing) <= 1

(***************************************************************************)
(* C26.  Stop wins over a start it follows: when the last recorder call    *)
(* made was a stop, invoked after a start had begun (resolved or still     *)
(* pending), and every call has resolved, no media recorder captures.      *)
(***************************************************************************)
C26_StopWins ==
  (stopAfterStart /\ startPc = "idle" /\ stopPc = "idle") => Capturing = {}

(***************************************************************************)
(* C27.  When a RecorderSoT.stop call resolves, the underlying stop has    *)
(* fully settled: no media recorder is still between the stop command and  *)
(* the hand-over of its final payload.  This holds for a call that         *)
(* overlaps a stop in progress as well.                                    *)
(***************************************************************************)
C27_StopResolvesSettled ==
  [][ nStopResolved' = nStopResolved + 1 => Settling' = {} ]_vars


(***************************************************************************)
(* Observations on the conversation flow.                                  *)
(***************************************************************************)
\* TRUE of a step iff it is processAIResponse on a reply with more-questions
\* phrasing
AskedForMore ==
  \E analysis \in AiAnalyses :
    analysis.isAskingForMoreQuestions /\ ProcessAIResponse(analysis)

\* TRUE of a step iff it is processAIResponse on a reply with more-questions
\* phrasing and without ending phrasing
AskedForMoreOnly ==
  \E analysis \in AiAnalyses :
    /\ analysis.isAskingForMoreQuestions
    /\ analysis.isEndingConversation = FALSE
    /\ ProcessAIResponse(analysis)

\* TRUE of a step iff it is processUserMessage on an utterance with closing
\* language while end confirmation is awaited
ClosingWhileAwaited == isAwaitingEndConfirmation /\ ProcessUserMessage(TRUE)

\* TRUE of a step iff it sets the grace timer of the given reason, due after
\* the grace delay, and changes the state to ending
EntersEnding(reason) ==
  /\ state' = "ending"
  /\ graceTimers' = Append(graceTimers, [due |-> clock + GraceMs, reason |-> reason])

\* TRUE of a step iff it is the callback of a grace timer of the given
\* reason: the state becomes ended and onCallEnd is called with the reason
EndsWith(reason) ==
  /\ state' = "ended"
  /\ callEnds' = Append(callEnds, reason)

\* C28, as stated: processing an AI reply with more-questions phrasing makes
\* the state waiting-for-response and sets isAwaitingEndConfirmation; an
\* utterance with closing language that follows makes the state ending, and
\* the grace delay later, within a tick, the state becomes ended and
\* onCallEnd is called with user-confirmed-end.
C28_AskThenClosingEnds ==
  [][ /\ AskedForMore =>
           state' = "waiting-for-response" /\ isAwaitingEndConfirmation'
      /\ ClosingWhileAwaited => EntersEnding("user-confirmed-end")
      /\ \A i \in DOMAIN graceTimers :
           graceTimers[i].reason = "user-confirmed-end" =>
             /\ clock < graceTimers[i].due + FlowTickMs
             /\ (i = 1 /\ graceTimers' = Tail(graceTimers)) =>
                  clock >= graceTimers[i].due /\ EndsWith("user-confirmed-end")
    ]_vars

\* C28, amended: the same, for an AI reply with more-questions phrasing and
\* no ending phrasing.
C28_AskOnlyThenClosingEnds ==
  [][ /\ AskedForMoreOnly =>
           state' = "waiting-for-response" /\ isAwaitingEndConfirmation'
      /\ ClosingWhileAwaited => EntersEnding("user-confirmed-end")
      /\ \A i \in DOMAIN graceTimers :
           graceTimers[i].reason = "user-confirmed-end" =>
             /\ clock < graceTimers[i].due + FlowTickMs
             /\ (i = 1 /\ graceTimers' = Tail(graceTimers)) =>
                  clock >= graceTimers[i].due /\ EndsWith("user-confirmed-end")
    ]_vars

\* the call has ended on the user's confirmation
C28_Witness ==
  /\ state = "ended"
  /\ callEnds # << >>
  /\ callEnds[Len(callEnds)] = "user-confirmed-end"


\* TRUE of a step iff it is processUserMessage on an utterance without
\* closing language while end confirmation is awaited
OtherWhileAwaited == isAwaitingEndConfirmation /\ ProcessUserMessage(FALSE)

\* C29: isAwaitingEndConfirmation is set only by processing an AI reply
\* classified as asking for more questions, and the next user utterance
\* clears it: a negative one ends the call, any other one clears the flag
\* and the call continues.
C29_AwaitingClearedByNextUtterance ==
  [][ /\ (isAwaitingEndConfirmation' /\ isAwaitingEndConfirmation = FALSE) => AskedForMore
      /\ ClosingWhileAwaited => state' = "ending"
      /\ OtherWhileAwaited =>
           isAwaitingEndConfirmation' = FALSE /\ state' # "ending"
    ]_vars


\* TRUE of a step iff it is processAIResponse on a reply with ending phrasing
AiEnded ==
  \E analysis \in AiAnalyses :
    analysis.isEndingConversation /\ ProcessAIResponse(analysis)

\* TRUE of a step iff it is the silence timer's callback while end
\* confirmation was awaited when the timer was set
SilentAfterPrompt == silenceTimeout.kind = "end" /\ SilenceTimeoutFire

\* TRUE of a step iff each trigger of an ending sets one grace timer with
\* its own reason, due after the grace delay, and nothing else enters ending
EndingSetsGraceTimer ==
  /\ ConnectionCheckFire => EntersEnding("no-response")
  /\ SilentAfterPrompt => EntersEnding("no-response-after-prompt")
  /\ ClosingWhileAwaited => EntersEnding("user-confirmed-end")
  /\ AiEnded => EntersEnding("ai-ended")
  /\ (state' = "ending" /\ state # "ending") =>
       (ConnectionCheckFire \/ SilentAfterPrompt \/ ClosingWhileAwaited \/ AiEnded)

\* TRUE of a step iff no grace timer is overdue by a tick, and a call of
\* onCallEnd is the callback of the oldest grace timer, not before it is due,
\* with its reason and with the state changed to ended
GraceTimerEndsCall ==
  /\ \A i \in DOMAIN graceTimers : clock < graceTimers[i].due + FlowTickMs
  /\ callEnds' # callEnds =>
       /\ graceTimers # << >>
       /\ graceTimers' = Tail(graceTimers)
       /\ clock >= Head(graceTimers).due
       /\ EndsWith(Head(graceTimers).reason)

\* TRUE of a step iff, when it calls onCallEnd, no ending is left whose
\* grace delay has not passed
NoEndingCutShort ==
  callEnds' # callEnds =>
    \A i \in DOMAIN graceTimers' : graceTimers'[i].due <= clock

\* C30: every transition into ending sets the grace timer of its trigger's
\* reason; the grace delay later, and not before, the state becomes ended and
\* onCallEnd is called once with that reason: the flow does not enter ended
\* and report the end of the call while the grace delay of an ending is
\* still running.
C30_EndedAfterGraceWithReason ==
  [][ EndingSetsGraceTimer /\ GraceTimerEndsCall /\ NoEndingCutShort ]_vars


\* TRUE of a step iff it is the arrival of a user message or the detection
\* of the start of speech
UserHeard == (\E negative \in BOOLEAN : ProcessUserMessage(negative)) \/ StopListening

\* TRUE of a step iff it adds the connection-check prompt
ChecksConnection ==
  state' = "checking-connection" /\ connectionCheckCount' = connectionCheckCount + 1

\* TRUE of a step iff it enters ending because of silence
EndsForSilence ==
  EntersEnding("no-response") \/ EntersEnding("no-response-after-prompt")

C32_PlayedInSeqOrder ==
  \A i, j \in DOMAIN played : i < j => played[i] < played[j]


(***************************************************************************)
(* Observations on the sessions' timers and bridges at teardown.           *)
(***************************************************************************)
\* C33: the silence timer's callback, when it runs after the session's
\* close handler, is a no-op: it sends no frame and starts no forward and
\* no reply cycle.
C33_TimerAfterCloseIsNoOp ==
  [][ (wsState = "closed" /\ SilenceFire) =>
        /\ sent' = sent
        /\ replies' = replies
        /\ llmStarted' = llmStarted
        /\ fwdCount' = fwdCount
    ]_vars


\* C34: once the close handler of a session has run, no timer of the session
\* is armed (of the streaming gateway's timers the close handler's
\* clearInterval calls stop the ping and the idle interval; the silence
\* timer is the one observed here).
C34_NoTimerArmedAfterClose == wsState = "closed" => silenceTimer = FALSE


\* C35: once the close handler of a Live session has run, no upstream
\* socket opened for the session is open.
C35_NoBridgeOpenAfterClose ==
  lvWs = "closed" => \A k \in DOMAIN starts : starts[k].up # "open"


\* the start blocks whose upstream socket is open
OpenBridges == { k \in DOMAIN starts : starts[k].up = "open" }

\* C36: at every point of a Live session at most one upstream socket is
\* open for it.
C36_AtMostOneBridgeOpen == Cardinality(OpenBridges) <= 1


\* TRUE of a step iff it is the arrival of an audio chunk, binary or JSON
AudioArrives == \E binary \in BOOLEAN, size \in msgSizes : RecvAudio(binary, size)

\* C37: audio that arrives after the turn has been forwarded and answered
\* begins a new turn: its chunk is buffered and the forwarded latch is
\* fresh, so that the new turn can be finalized in its turn.
C37_NextAudioBeginsFreshTurn ==
  [][ (fwd.pc = "done" /\ AudioArrives) =>
        chunks' # << >> /\ forwarded' = FALSE
    ]_vars


\* C38: no media recorder is started while the stop of another is still
\* settling, and the completion of a stop leaves the chunks of a recorder
\* that is recording alone.
C38_NoStartWhileStopSettles ==
  [][ /\ Settling # {} => Len(recorders') = Len(recorders)
      /\ (handed' = handed + 1 /\ Capturing' # {}) => audioChunks' = audioChunks
    ]_vars


\* TRUE of a step iff it is endConversation: the call is ended by hand
HangsUp == nHangup' = nHangup + 1

\* C39: ending the call cancels every pending timer of the conversation
\* flow: after endConversation no timer armed before it is left to change
\* the state, add a message or call onCallEnd.
C39_HangUpCancelsAllTimers ==
  [][ HangsUp =>
        /\ silenceTimeout' = NoTimer
        /\ connectionCheckTimeout' = Null
        /\ graceTimers' = << >>
        /\ greetingTimer' = Null
    ]_vars


\* the chunks of the forwarded turn buffer
Forwarded == { fwd.body[i] : i \in DOMAIN fwd.body }

\* C40: the forwarded turn buffer holds accepted chunks in arrival order,
\* each once, and when the session is over and its forward is done every
\* chunk the gateway accepted is in the buffer.
C40_EveryChunkForwardedOnce ==
  /\ \A i, j \in DOMAIN fwd.body : i < j => fwd.body[i] < fwd.body[j]
  /\ Forwarded \subseteq 1 .. nChunks
  /\ (wsState = "closed" /\ fwd.pc = "done") => Forwarded = 1 .. nChunks

=============================================================================
